---- MODULE Spec2Model ----
(***************************************************************************)
(* ccnotify: the configuration store (load / merge / save with backup),    *)
(* the input validators, the hook generators and the command pipelines of  *)
(* the discord, ntfy and macos commands, as a state machine over the       *)
(* files they touch.                                                       *)
(***************************************************************************)
EXTENDS Integers, Sequences, FiniteSets, TLC

VARIABLES
    cfgFile,    \* [scope -> content of <scope dir>/.claude/settings.json]
    cfgDir,     \* [scope -> TRUE when the .claude directory exists]
    backups,    \* [scope -> [timestamp -> content]]: the settings.json.backup.<ts> files
    ntfySh,     \* [scope -> content of <scope dir>/.claude/ntfy.sh]
    dataScript, \* content of <XDG data>/ccnotify/macos-notification.sh
    clock,      \* the instant new Date() returns
    pruning,    \* TRUE when utils/file.ts is the build whose createBackup prunes
    inv,        \* [process -> the state of its command invocation]
    last,       \* summary of the invocation that finished last (history)
    runs,       \* number of invocations started so far
    faults,     \* number of failed file-system calls so far
    mIn,        \* arguments of a mergeConfig / validation call under test
    mOut        \* its result

vars == <<cfgFile, cfgDir, backups, ntfySh, dataScript, clock, pruning,
          inv, last, runs, faults, mIn, mOut>>

(***************************************************************************)
(* Bounds of the model.                                                    *)
(***************************************************************************)
MaxInvocations == 2
MaxFaults == 2
MaxStop == 2

(***************************************************************************)
(* JSON values as JavaScript sees them.  A value is a record tagged with   *)
(* its type; an array also carries the named properties assigned to it in  *)
(* memory (JSON.stringify drops them).  A string is a sequence of tokens,  *)
(* a number and a boolean are the token of their literal.                  *)
(***************************************************************************)
Undef == [t |-> "undef"]
Null == [t |-> "null"]
Str(s) == [t |-> "str", v |-> s]
Num(s) == [t |-> "num", v |-> s]
Bool(s) == [t |-> "bool", v |-> s]
Arr(s) == [t |-> "arr", v |-> s, p |-> <<>>]
Obj(f) == [t |-> "obj", v |-> f]
EmptyObj == Obj(<<>>)

\* typeof x
TypeOf(x) ==
    CASE x.t = "undef" -> "undefined"
      [] x.t = "str" -> "string"
      [] x.t = "num" -> "number"
      [] x.t = "bool" -> "boolean"
      [] OTHER -> "object"

\* Array.isArray(x)
IsArray(x) == x.t = "arr"

\* the truthiness test of  if (x)  and  !x
Truthy(x) ==
    CASE x.t \in {"undef", "null"} -> FALSE
      [] x.t = "str" -> x.v # <<>>
      [] x.t = "num" -> x.v # <<"0">>
      [] x.t = "bool" -> x.v = <<"true">>
      [] OTHER -> TRUE

\* the named properties of an object or of an array
Props(x) == IF x.t = "obj" THEN x.v ELSE IF x.t = "arr" THEN x.p ELSE <<>>

\* Object.keys(x) restricted to named properties
Keys(x) == DOMAIN Props(x)

\* x[k] for a property name k
Get(x, k) == IF k \in Keys(x) THEN Props(x)[k] ELSE Undef

\* x[k] = val
Put(x, k, val) ==
    LET q == [j \in Keys(x) \cup {k} |-> IF j = k THEN val ELSE Props(x)[j]]
    IN  IF x.t = "arr" THEN [x EXCEPT !.p = q] ELSE Obj(q)

RECURSIVE Clone(_)
\* JSON.parse(JSON.stringify(x)): undefined properties and the named
\* properties of arrays are lost, undefined array elements become null
Clone(x) ==
    CASE x.t = "obj" ->
           Obj([k \in {j \in DOMAIN x.v : x.v[j].t # "undef"} |-> Clone(x.v[k])])
      [] x.t = "arr" ->
           Arr([i \in 1..Len(x.v) |->
                  IF x.v[i].t = "undef" THEN Null ELSE Clone(x.v[i])])
      [] OTHER -> x

(***************************************************************************)
(* ConfigManagerImpl.validateConfig: "ok", or the message of the           *)
(* JSON_PARSE_ERROR it throws.                                             *)
(***************************************************************************)
ValidateAction(h) ==
    IF TypeOf(h) # "object" \/ h.t = "null" THEN "Hook must be an object"
    ELSE IF Get(h, "type") # Str(<<"command">>) THEN "Hook must have type 'command'"
    ELSE IF TypeOf(Get(h, "command")) # "string" THEN "Hook must have a string command"
    ELSE "ok"

\* a check of a Stop hook that does not look at its matcher
ValidateStopHookNoMatcher(hook) ==
    IF TypeOf(hook) # "object" \/ hook.t = "null" THEN "Stop hook must be an object"
    ELSE IF ~IsArray(Get(hook, "hooks")) THEN "Stop hook must have a hooks array"
    ELSE LET hs == Get(hook, "hooks").v
             bad == {i \in 1..Len(hs) : ValidateAction(hs[i]) # "ok"}
         IN  IF bad = {} THEN "ok"
             ELSE ValidateAction(hs[CHOOSE i \in bad : \A j \in bad : i <= j])

ValidateStopHook(hook) ==
    IF TypeOf(hook) # "object" \/ hook.t = "null" THEN "Stop hook must be an object"
    ELSE IF TypeOf(Get(hook, "matcher")) # "string"
         THEN "Stop hook must have a string matcher"
    ELSE IF ~IsArray(Get(hook, "hooks")) THEN "Stop hook must have a hooks array"
    ELSE LET hs == Get(hook, "hooks").v
             bad == {i \in 1..Len(hs) : ValidateAction(hs[i]) # "ok"}
         IN  IF bad = {} THEN "ok"
             ELSE ValidateAction(hs[CHOOSE i \in bad : \A j \in bad : i <= j])

ValidateConfig(config) ==
    IF config.t \in {"null", "undef"} THEN "Configuration cannot be null or undefined"
    ELSE IF TypeOf(config) # "object" THEN "Configuration must be an object"
    ELSE LET hooks == Get(config, "hooks") IN
         IF hooks.t = "undef" THEN "ok"
         ELSE IF TypeOf(hooks) # "object" \/ hooks.t = "null"
              THEN "hooks property must be an object"
         ELSE LET stop == Get(hooks, "Stop") IN
              IF stop.t = "undef" THEN "ok"
              ELSE IF ~IsArray(stop) THEN "hooks.Stop must be an array"
              ELSE LET bad == {i \in 1..Len(stop.v) : ValidateStopHook(stop.v[i]) # "ok"}
                   IN  IF bad = {} THEN "ok"
                       ELSE ValidateStopHook(stop.v[CHOOSE i \in bad : \A j \in bad : i <= j])

(***************************************************************************)
(* ConfigManagerImpl.mergeConfig.                                          *)
(***************************************************************************)
\* a findIndex that never finds the matcher
FindIndexNone(stop, newHook) == 0

\* merged.hooks.Stop.findIndex(h => h.matcher === newHook.matcher), as a
\* position 1..Len, 0 when findIndex returns -1
FindIndex(stop, newHook) ==
    LET hit == {i \in 1..Len(stop) : Get(stop[i], "matcher") = Get(newHook, "matcher")}
    IN  IF hit = {} THEN 0 ELSE CHOOSE i \in hit : \A j \in hit : i <= j

\* a forEach body that pushes without looking for the matcher
MergeStopHookPush(stop, newHook) == Append(stop, newHook)

\* the body of  updates.hooks.Stop.forEach: replace at existingIndex, or push
MergeStopHook(stop, newHook) ==
    LET existingIndex == FindIndex(stop, newHook)
    IN  IF existingIndex >= 1 THEN [stop EXCEPT ![existingIndex] = newHook]
        ELSE Append(stop, newHook)

RECURSIVE MergeStop(_, _)
\* updates.hooks.Stop.forEach(...) over the incoming hooks, in order
MergeStop(stop, news) ==
    IF news = <<>> THEN stop
    ELSE MergeStop(MergeStopHook(stop, Head(news)), Tail(news))

\* a forEach body that merges the array of every hook type by matcher
MergeHookTypeElementwise(mhooks, uhooks, hookType) ==
    IF Truthy(Get(uhooks, hookType)) /\ Truthy(mhooks)
    THEN LET m1 == IF ~Truthy(Get(mhooks, hookType))
                   THEN Put(mhooks, hookType, Arr(<<>>)) ELSE mhooks
             s1 == Get(m1, hookType)
         IN  Put(m1, hookType, [s1 EXCEPT !.v = MergeStop(s1.v, Get(uhooks, hookType).v)])
    ELSE IF Truthy(mhooks) /\ Truthy(uhooks)
         THEN Put(mhooks, hookType, Get(uhooks, hookType))
         ELSE mhooks

\* one round of  Object.keys(updates.hooks).forEach, on merged.hooks
MergeHookType(mhooks, uhooks, hookType) ==
    IF hookType = "Stop" /\ Truthy(Get(uhooks, "Stop")) /\ Truthy(mhooks)
    THEN LET m1 == IF ~Truthy(Get(mhooks, "Stop"))
                   THEN Put(mhooks, "Stop", Arr(<<>>)) ELSE mhooks
             s1 == Get(m1, "Stop")
         IN  Put(m1, "Stop", [s1 EXCEPT !.v = MergeStop(s1.v, Get(uhooks, "Stop").v)])
    ELSE IF Truthy(mhooks) /\ Truthy(uhooks)
         THEN Put(mhooks, hookType, Get(uhooks, hookType))
         ELSE mhooks

RECURSIVE MergeHookTypes(_, _, _)
MergeHookTypes(mhooks, uhooks, todo) ==
    IF todo = {} THEN mhooks
    ELSE LET hookType == CHOOSE k \in todo : TRUE
         IN  MergeHookTypes(MergeHookType(mhooks, uhooks, hookType), uhooks,
                            todo \ {hookType})

\* a forEach body that assigns every key, hooks included, wholesale
MergeKeyAssign(merged, updates, key) == Put(merged, key, Get(updates, key))

\* one round of  Object.keys(updates).forEach, on merged
MergeKey(merged, updates, key) ==
    IF key = "hooks" /\ Truthy(Get(updates, "hooks"))
    THEN LET m1 == IF ~Truthy(Get(merged, "hooks"))
                   THEN Put(merged, "hooks", EmptyObj) ELSE merged
         IN  Put(m1, "hooks",
                 MergeHookTypes(Get(m1, "hooks"), Get(updates, "hooks"),
                                Keys(Get(updates, "hooks"))))
    ELSE Put(merged, key, Get(updates, key))

RECURSIVE MergeKeys(_, _, _)
MergeKeys(merged, updates, todo) ==
    IF todo = {} THEN merged
    ELSE LET key == CHOOSE k \in todo : TRUE
         IN  MergeKeys(MergeKey(merged, updates, key), updates, todo \ {key})

\* a merge that returns the incoming document alone
mergeConfigUpdatesOnly(existing, updates) ==
    Clone(updates)

mergeConfig(existing, updates) ==
    MergeKeys(Clone(existing), updates, Keys(updates))


(***************************************************************************)
(* services/validation.ts.  A raw input is a sequence of characters.       *)
(***************************************************************************)
Digits == {"0", "1", "2", "3", "4", "5", "6", "7", "8", "9"}
Lower == {"a", "b", "c", "d", "e", "f", "g", "h", "i", "j", "k", "l", "m",
          "n", "o", "p", "q", "r", "s", "t", "u", "v", "w", "x", "y", "z"}
Upper == {"A", "B", "C", "D", "E", "F", "G", "H", "I", "J", "K", "L", "M",
          "N", "O", "P", "Q", "R", "S", "T", "U", "V", "W", "X", "Y", "Z"}
\* \w and [\w-]
WordChars == Digits \cup Lower \cup Upper \cup {"_"}
TokenChars == WordChars \cup {"-"}
\* the characters String.trim removes, and one of [\x00-\x08\x0B\x0C\x0E-\x1F\x7F]
Whitespace == {" ", "\t", "\n"}
ControlChars == {"<x00>", "<x1F>", "<x7F>"}
MaxInputLen == 2048
MaxTopicLen == 64

RECURSIVE RemoveControl(_)
\* input.replace(/[\x00-\x08\x0B\x0C\x0E-\x1F\x7F]/g, '')
RemoveControl(s) ==
    IF s = <<>> THEN <<>>
    ELSE IF Head(s) \in ControlChars THEN RemoveControl(Tail(s))
    ELSE <<Head(s)>> \o RemoveControl(Tail(s))

RECURSIVE TrimStart(_)
TrimStart(s) ==
    IF s # <<>> /\ Head(s) \in Whitespace THEN TrimStart(Tail(s)) ELSE s

RECURSIVE TrimEnd(_)
TrimEnd(s) ==
    IF s # <<>> /\ s[Len(s)] \in Whitespace THEN TrimEnd(SubSeq(s, 1, Len(s) - 1)) ELSE s

\* String.prototype.trim
Trim(s) == TrimEnd(TrimStart(s))

sanitizeInput(input) ==
    IF input = <<>> THEN <<>>
    ELSE LET sanitized == Trim(RemoveControl(input))
         IN  IF Len(sanitized) > MaxInputLen THEN SubSeq(sanitized, 1, MaxInputLen)
             ELSE sanitized

StartsWith(s, pre) == Len(s) >= Len(pre) /\ SubSeq(s, 1, Len(pre)) = pre

HttpsDiscord == <<"h", "t", "t", "p", "s", ":", "/", "/", "d", "i", "s", "c", "o", "r", "d">>
AppPart == <<"a", "p", "p">>
ComApiWebhooks == <<".", "c", "o", "m", "/", "a", "p", "i", "/",
                    "w", "e", "b", "h", "o", "o", "k", "s", "/">>

\* /^https:\/\/discord(?:app)?\.com\/api\/webhooks\/\d+\/[\w-]+$/.test(url)
discordWebhookPattern(url) ==
    \E pre \in {HttpsDiscord \o ComApiWebhooks, HttpsDiscord \o AppPart \o ComApiWebhooks} :
        /\ StartsWith(url, pre)
        /\ LET rest == SubSeq(url, Len(pre) + 1, Len(url))
           IN  \E n \in 1..Len(rest) :
                   /\ \A i \in 1..n : rest[i] \in Digits
                   /\ n + 2 <= Len(rest)
                   /\ rest[n + 1] = "/"
                   /\ \A i \in (n + 2)..Len(rest) : rest[i] \in TokenChars

\* "ok", or the ErrorType thrown
validateDiscordWebhookUrl(url) ==
    IF url = <<>> THEN "INVALID_WEBHOOK_URL"
    ELSE IF ~discordWebhookPattern(url) THEN "INVALID_WEBHOOK_URL"
    ELSE "ok"

\* a pattern with no upper limit on the length, /^[a-zA-Z0-9_-]+$/
ntfyTopicPatternNoMax(topicName) ==
    /\ Len(topicName) >= 1
    /\ \A i \in 1..Len(topicName) : topicName[i] \in TokenChars

\* /^[a-zA-Z0-9_-]{1,64}$/.test(topicName)
ntfyTopicPattern(topicName) ==
    /\ Len(topicName) >= 1
    /\ Len(topicName) <= MaxTopicLen
    /\ \A i \in 1..Len(topicName) : topicName[i] \in TokenChars

\* a validation that stops after the pattern test
validateNtfyTopicNamePatternOnly(topicName) ==
    IF topicName = <<>> THEN "INVALID_TOPIC_NAME"
    ELSE IF ~ntfyTopicPattern(topicName) THEN "INVALID_TOPIC_NAME"
    ELSE "ok"

validateNtfyTopicName(topicName) ==
    IF topicName = <<>> THEN "INVALID_TOPIC_NAME"
    ELSE IF ~ntfyTopicPattern(topicName) THEN "INVALID_TOPIC_NAME"
    ELSE IF \/ topicName[1] \in {"-", "_"}
            \/ topicName[Len(topicName)] \in {"-", "_"}
         THEN "INVALID_TOPIC_NAME"
    ELSE "ok"

(***************************************************************************)
(* The hook generators.  A generated command or script is the template's   *)
(* name followed by the embedded value.                                    *)
(***************************************************************************)
StopHook(matcher, command) ==
    Obj([matcher |-> Str(<<matcher>>),
         hooks |-> Arr(<<Obj([type |-> Str(<<"command">>), command |-> Str(command)])>>)])

\* HookGeneratorImpl.createDiscordCommand / createNtfyCommand (services/hooks.ts)
createDiscordCommand(webhookUrl) == <<"#!/bin/bash discord curl ">> \o webhookUrl
createNtfyCommand(topicName) == <<"#!/bin/bash ntfy DEFAULT_TOPIC_NAME=">> \o topicName

\* a generator whose command does not depend on the URL
generateDiscordHookFixed(webhookUrl) ==
    StopHook("discord-notification", createDiscordCommand(<<>>))

generateDiscordHook(webhookUrl) ==
    StopHook("discord-notification", createDiscordCommand(webhookUrl))
generateNtfyHook(topicName) ==
    StopHook("ntfy-notification", createNtfyCommand(topicName))

\* pathResolver.getScriptPath(isGlobal, scriptName): isGlobal is not used
getScriptPath(isGlobal, scriptName) == <<"XDG_DATA_HOME/ccnotify/", scriptName>>

\* the hook generateMacOSHook returns once the script is written
macOSHook(isGlobal) ==
    StopHook("macos-notification", getScriptPath(isGlobal, "macos-notification.sh"))


(***************************************************************************)
(* Files.  The content of a file is absent, a JSON text (the value it      *)
(* parses to and its layout), a text that is not JSON, the remains of a    *)
(* write that failed half way, or a generated script.                      *)
(***************************************************************************)
Absent == [k |-> "absent"]
Garbage == [k |-> "garbage"]
Partial == [k |-> "partial"]
JsonText(doc, fmt) == [k |-> "json", doc |-> doc, fmt |-> fmt]
ScriptText(text) == [k |-> "script", text |-> text]

\* fileSystemService.fileExists
fileExists(content) == content.k # "absent"

\* JSON.stringify(data, null, 2)
JSONstringify(data) == JsonText(Clone(data), "indent2")

\* JSON.parse(content) succeeds / its value
CanParse(content) == content.k = "json"
JSONparse(content) == content.doc

\* errorHandler.wrapFileSystemError: the ErrorType chosen for an errno code
ErrCodes == {"EACCES", "ENOTDIR"}
wrapFileSystemError(code) ==
    IF code = "ENOTDIR" THEN "DIRECTORY_ACCESS_ERROR" ELSE "FILE_PERMISSION_ERROR"

\* what a failed fs.writeFile / fs.copyFile can leave at the destination
FailedWrite(before) == {before, Partial}

\* generateNtfyScriptContent / generateMacOSScriptContent
generateNtfyScriptContent(topicName) ==
    ScriptText(<<"#!/bin/bash ntfy.sh DEFAULT_TOPIC_NAME=">> \o topicName)
generateMacOSScriptContent(title) ==
    ScriptText(IF title # <<>> THEN <<"#!/bin/bash macos MAIN_TITLE=">> \o title
               ELSE <<"#!/bin/bash macos MAIN_TITLE=Claude Code">>)

(***************************************************************************)
(* Inputs of the commands.                                                 *)
(***************************************************************************)
Url1 == HttpsDiscord \o ComApiWebhooks \o <<"1", "2", "/", "a", "B">>
Url2 == HttpsDiscord \o AppPart \o ComApiWebhooks \o <<"7", "/", "x", "-", "_">>
UrlHttp == <<"h", "t", "t", "p", ":", "/", "/", "d", "i", "s", "c", "o", "r", "d">>
           \o ComApiWebhooks \o <<"1", "2", "/", "a", "B">>
DiscordInputs == {Url1, <<" ">> \o Url2 \o <<"\n">>, UrlHttp}
NtfyInputs == {<<"t", "-", "2">>, <<"-", "a">>}
MacosInputs == {<<>>, <<"T">>}

NoCmd == [ch |-> "none", arg |-> <<>>, isGlobal |-> FALSE]
Commands ==
    [ch : {"discord"}, arg : DiscordInputs, isGlobal : DOMAIN cfgFile]
    \cup [ch : {"ntfy"}, arg : NtfyInputs, isGlobal : DOMAIN cfgFile]
    \cup [ch : {"macos"}, arg : MacosInputs, isGlobal : DOMAIN cfgFile]

Matcher(ch) ==
    CASE ch = "discord" -> "discord-notification"
      [] ch = "ntfy" -> "ntfy-notification"
      [] OTHER -> "macos-notification"

(***************************************************************************)
(* The state of one command invocation (handleDiscordCommand,              *)
(* handleNtfyCommand, handleMacOSCommand) and its history.                 *)
(***************************************************************************)
Snapshot(g) ==
    [file |-> cfgFile[g], dir |-> cfgDir[g], backups |-> backups[g],
     ntfySh |-> ntfySh[g], dataScript |-> dataScript]
NoSnap ==
    [file |-> Absent, dir |-> FALSE, backups |-> <<>>,
     ntfySh |-> Absent, dataScript |-> Absent]

Idle ==
    [pc |-> "idle", cmd |-> NoCmd, value |-> <<>>, existingConfig |-> Undef,
     hook |-> Undef, updatedConfig |-> Undef, backupPath |-> 0,
     writeError |-> "none", pre |-> NoSnap, steps |-> <<>>,
     prevCmd |-> NoCmd, prevOk |-> FALSE, prevPre |-> NoSnap]

NoRun ==
    [cmd |-> NoCmd, ok |-> FALSE, err |-> "none", value |-> <<>>, hook |-> Undef,
     pre |-> NoSnap, steps |-> <<>>,
     prevCmd |-> NoCmd, prevOk |-> FALSE, prevPre |-> NoSnap]

Step(label, ok) == [s |-> label, ok |-> ok]

\* an invocation that stays at the step it has done and takes it again
GotoRetry(p, pc, step, changes) ==
    inv' = [inv EXCEPT ![p] = [changes EXCEPT !.steps = Append(@, step)]]

\* the invocation of p moves on to pc, having done the step, with the
\* changes to its local variables
Goto(p, pc, step, changes) ==
    inv' = [inv EXCEPT ![p] = [changes EXCEPT !.pc = pc, !.steps = Append(@, step)]]

\* the invocation of p ends: ok, or with the CCNotifyError type err thrown by
\* the step
Finish(p, ok, err, step) ==
    /\ last' = [cmd |-> inv[p].cmd, ok |-> ok, err |-> err,
                value |-> inv[p].value, hook |-> inv[p].hook,
                pre |-> inv[p].pre,
                steps |-> Append(inv[p].steps, step),
                prevCmd |-> inv[p].prevCmd, prevOk |-> inv[p].prevOk,
                prevPre |-> inv[p].prevPre]
    /\ inv' = [inv EXCEPT ![p] = Idle]

CanFail == faults < MaxFaults
Fault == faults' = faults + 1
NoFault == UNCHANGED faults


(***************************************************************************)
(* FileSystemServiceImpl.createBackup and cleanupOldBackups.               *)
(***************************************************************************)
MaxOf(S) == CHOOSE x \in S : \A y \in S : y <= x

\* the backup files of scope g once fs.copyFile(filePath, backupPath) is done
BackupCopied(g, timestamp) == (timestamp :> cfgFile[g]) @@ backups[g]

\* cleanupOldBackups: sorted by timestamp, newest first; all but index 0 are
\* unlinked
cleanupOldBackups(bk) == [t \in {MaxOf(DOMAIN bk)} |-> bk[t]]

\* a createBackup that returns a path without having copied the file
createBackupNoCopy(g, timestamp, cleaned) == backups[g]

\* the backup files of scope g when createBackup returns backupPath; cleaned
\* is FALSE when the best-effort cleanup failed
createBackup(g, timestamp, cleaned) ==
    IF pruning /\ cleaned THEN cleanupOldBackups(BackupCopied(g, timestamp))
    ELSE BackupCopied(g, timestamp)

\* the backup files of scope g when fs.copyFile of createBackup failed: the
\* copy is refused before the destination is created
BackupFailed(g, timestamp) == {backups[g]}

(***************************************************************************)
(* The steps of a command invocation.                                      *)
(***************************************************************************)
UnchangedFiles == UNCHANGED <<cfgFile, cfgDir, backups, ntfySh, dataScript>>
UnchangedTest == UNCHANGED <<pruning, mIn, mOut>>

\* a command starts, some time after the one before it has ended
Start(p) ==
    /\ inv[p].pc = "idle"
    /\ runs < MaxInvocations
    /\ \E cmd \in Commands :
         inv' = [inv EXCEPT ![p] =
                   [Idle EXCEPT !.pc = "validate", !.cmd = cmd,
                                !.pre = Snapshot(cmd.isGlobal),
                                !.prevCmd = last.cmd, !.prevOk = last.ok,
                                !.prevPre = last.pre]]
    /\ last' = NoRun
    /\ runs' = runs + 1
    /\ clock' = clock + 1
    /\ UnchangedFiles /\ UnchangedTest /\ UNCHANGED faults

\* validateAndSanitizeDiscordUrl / validateAndSanitizeNtfyTopic, then
\* getConfigPath; the macos command takes its title as it is
Validate(p) ==
    /\ inv[p].pc = "validate"
    /\ LET c == inv[p].cmd
           sanitized == IF c.ch = "macos" THEN c.arg ELSE sanitizeInput(c.arg)
           res == CASE c.ch = "discord" -> validateDiscordWebhookUrl(sanitized)
                    [] c.ch = "ntfy" -> validateNtfyTopicName(sanitized)
                    [] OTHER -> "ok"
       IN  IF res # "ok"
           THEN /\ Finish(p, FALSE, res, Step("validate", FALSE))
                /\ runs' = runs
           ELSE /\ Goto(p, "ensureDir", Step("validate", TRUE),
                        [inv[p] EXCEPT !.value = sanitized])
                /\ UNCHANGED <<last, runs>>
    /\ UnchangedFiles /\ UnchangedTest /\ UNCHANGED <<clock, faults>>

\* fileSystemService.ensureDirectory(configDir)
EnsureDir(p) ==
    /\ inv[p].pc = "ensureDir"
    /\ LET g == inv[p].cmd.isGlobal IN
       \/ /\ cfgDir' = [cfgDir EXCEPT ![g] = TRUE]
          /\ Goto(p, "load", Step("ensureDir", TRUE), inv[p])
          /\ NoFault
          /\ UNCHANGED last
       \/ /\ CanFail
          /\ \E code \in ErrCodes :
               Finish(p, FALSE,
                      IF inv[p].cmd.ch = "macos" THEN wrapFileSystemError("none")
                      ELSE wrapFileSystemError(code),
                      Step("ensureDir", FALSE))
          /\ Fault
          /\ UNCHANGED cfgDir
    /\ UNCHANGED <<cfgFile, backups, ntfySh, dataScript, clock, runs>>
    /\ UnchangedTest

\* configManager.loadConfig(configPath)
Load(p) ==
    /\ inv[p].pc = "load"
    /\ LET f == cfgFile[inv[p].cmd.isGlobal] IN
       \/ /\ ~fileExists(f)
          /\ Goto(p, "backup", Step("load", TRUE),
                  [inv[p] EXCEPT !.existingConfig = EmptyObj])
          /\ NoFault
          /\ UNCHANGED last
       \/ /\ fileExists(f)
          /\ NoFault
          /\ IF ~CanParse(f)
             THEN Finish(p, FALSE, "JSON_PARSE_ERROR", Step("load", FALSE))
             ELSE IF ValidateConfig(JSONparse(f)) # "ok"
             THEN Finish(p, FALSE, "JSON_PARSE_ERROR", Step("load", FALSE))
             ELSE /\ Goto(p, "backup", Step("load", TRUE),
                          [inv[p] EXCEPT !.existingConfig = JSONparse(f)])
                  /\ UNCHANGED last
       \/ /\ fileExists(f)
          /\ CanFail
          /\ \E code \in ErrCodes :
               Finish(p, FALSE, wrapFileSystemError(code), Step("load", FALSE))
          /\ Fault
    /\ UnchangedFiles /\ UnchangedTest /\ UNCHANGED <<clock, runs>>

\* the values of the enum ErrorType: an error is written as its type when it
\* is a CCNotifyError and as its code when it is an error of node:fs
ErrorType ==
    {"INVALID_WEBHOOK_URL", "INVALID_TOPIC_NAME", "FILE_PERMISSION_ERROR",
     "JSON_PARSE_ERROR", "CONFIG_BACKUP_ERROR", "DIRECTORY_ACCESS_ERROR",
     "SCRIPT_CREATION_ERROR", "VALIDATION_ERROR", "NETWORK_ERROR", "COMMAND_ERROR"}

\* error instanceof CCNotifyError
IsCCNotifyError(error) == error \in ErrorType

\* copyFile: catch (error) { throw errorHandler.wrapFileSystemError(error, ...) }
copyFileError(code) == wrapFileSystemError(code)

\* createBackup: the catch block
createBackupError(error) ==
    IF IsCCNotifyError(error) THEN error ELSE "CONFIG_BACKUP_ERROR"

\* backupConfig: the catch block
backupConfigError(error) ==
    IF IsCCNotifyError(error) THEN error ELSE "CONFIG_BACKUP_ERROR"

\* saveConfig: the catch block
saveConfigError(error) ==
    IF IsCCNotifyError(error) THEN error ELSE "FILE_PERMISSION_ERROR"

\* if (await fileExists(configPath)) await configManager.backupConfig(configPath)
Backup(p) ==
    /\ inv[p].pc = "backup"
    /\ LET g == inv[p].cmd.isGlobal IN
       \/ /\ ~fileExists(cfgFile[g])
          /\ Goto(p, "generate", Step("nobackup", TRUE), inv[p])
          /\ NoFault
          /\ UNCHANGED <<backups, clock, last>>
       \/ /\ fileExists(cfgFile[g])
          /\ LET timestamp == clock IN
               /\ clock' = timestamp
               /\ \/ /\ backups' = [backups EXCEPT ![g] = createBackup(g, timestamp, TRUE)]
                     /\ NoFault
                     /\ Goto(p, "generate", Step("backup", TRUE), inv[p])
                     /\ UNCHANGED last
                  \/ /\ CanFail
                     /\ pruning
                     /\ backups' = [backups EXCEPT ![g] = createBackup(g, timestamp, FALSE)]
                     /\ Fault
                     /\ Goto(p, "generate", Step("backup", TRUE), inv[p])
                     /\ UNCHANGED last
                  \/ /\ CanFail
                     /\ \E bk \in BackupFailed(g, timestamp) :
                          backups' = [backups EXCEPT ![g] = bk]
                     /\ Fault
                     /\ \E code \in ErrCodes :
                          Finish(p, FALSE,
                                 backupConfigError(createBackupError(copyFileError(code))),
                                 Step("backup", FALSE))
    /\ UNCHANGED <<cfgFile, cfgDir, ntfySh, dataScript, runs>>
    /\ UnchangedTest

\* hookGenerator.generateDiscordHook / generateNtfyHook (services/hooks.ts),
\* and the generateMacOSHook that writes its script first
Generate(p) ==
    /\ inv[p].pc = "generate"
    /\ LET c == inv[p].cmd IN
       \/ /\ c.ch = "discord"
          /\ Goto(p, "merge", Step("generate", TRUE),
                  [inv[p] EXCEPT !.hook = generateDiscordHook(inv[p].value)])
          /\ NoFault
          /\ UNCHANGED <<dataScript, last>>
       \/ /\ c.ch = "ntfy"
          /\ Goto(p, "merge", Step("generate", TRUE),
                  [inv[p] EXCEPT !.hook = generateNtfyHook(inv[p].value)])
          /\ NoFault
          /\ UNCHANGED <<dataScript, last>>
       \/ /\ c.ch = "macos"
          /\ dataScript' = generateMacOSScriptContent(inv[p].value)
          /\ Goto(p, "merge", Step("generate", TRUE),
                  [inv[p] EXCEPT !.hook = macOSHook(c.isGlobal)])
          /\ NoFault
          /\ UNCHANGED last
       \/ /\ c.ch = "macos"
          /\ CanFail
          /\ \E left \in FailedWrite(dataScript) : dataScript' = left
          /\ \E code \in ErrCodes :
               Finish(p, FALSE, wrapFileSystemError(code), Step("generate", FALSE))
          /\ Fault
    /\ UNCHANGED <<cfgFile, cfgDir, backups, ntfySh, clock, runs>>
    /\ UnchangedTest

\* configManager.mergeConfig(existingConfig, {hooks: {Stop: [hook]}})
Merge(p) ==
    /\ inv[p].pc = "merge"
    /\ Goto(p, "save", Step("merge", TRUE),
            [inv[p] EXCEPT !.updatedConfig =
               mergeConfig(inv[p].existingConfig,
                           Obj([hooks |-> Obj([Stop |-> Arr(<<inv[p].hook>>)])]))])
    /\ UnchangedFiles /\ UnchangedTest /\ UNCHANGED <<clock, last, runs, faults>>

\* configManager.saveConfig: validateConfig, then safeWriteJsonFile up to
\* the backup it creates, at a later millisecond than the one of backupConfig
Save(p) ==
    /\ inv[p].pc = "save"
    /\ LET g == inv[p].cmd.isGlobal IN
       \/ /\ ValidateConfig(inv[p].updatedConfig) # "ok"
          /\ Finish(p, FALSE, "JSON_PARSE_ERROR", Step("save", FALSE))
          /\ NoFault
          /\ UNCHANGED <<backups, clock>>
       \/ /\ ValidateConfig(inv[p].updatedConfig) = "ok"
          /\ ~fileExists(cfgFile[g])
          /\ Goto(p, "write", Step("save", TRUE), [inv[p] EXCEPT !.backupPath = 0])
          /\ NoFault
          /\ UNCHANGED <<backups, clock, last>>
       \/ /\ ValidateConfig(inv[p].updatedConfig) = "ok"
          /\ fileExists(cfgFile[g])
          /\ LET timestamp == clock + 1 IN
               /\ clock' = timestamp
               /\ \/ /\ backups' = [backups EXCEPT ![g] = createBackup(g, timestamp, TRUE)]
                     /\ NoFault
                     /\ Goto(p, "write", Step("save", TRUE),
                             [inv[p] EXCEPT !.backupPath = timestamp])
                     /\ UNCHANGED last
                  \/ /\ CanFail
                     /\ pruning
                     /\ backups' = [backups EXCEPT ![g] = createBackup(g, timestamp, FALSE)]
                     /\ Fault
                     /\ Goto(p, "write", Step("save", TRUE),
                             [inv[p] EXCEPT !.backupPath = timestamp])
                     /\ UNCHANGED last
                  \/ /\ CanFail
                     /\ \E bk \in BackupFailed(g, timestamp) :
                          backups' = [backups EXCEPT ![g] = bk]
                     /\ Fault
                     /\ \E code \in ErrCodes :
                          Finish(p, FALSE,
                                 saveConfigError(createBackupError(copyFileError(code))),
                                 Step("save", FALSE))
    /\ UNCHANGED <<cfgFile, cfgDir, ntfySh, dataScript, runs>>
    /\ UnchangedTest

\* safeWriteJsonFile: await fileUtils.writeJsonFile(path, data)
SaveWrite(p) ==
    /\ inv[p].pc = "write"
    /\ LET g == inv[p].cmd.isGlobal IN
       \/ /\ cfgFile' = [cfgFile EXCEPT ![g] = JSONstringify(inv[p].updatedConfig)]
          /\ NoFault
          /\ IF inv[p].cmd.ch = "ntfy"
             THEN /\ Goto(p, "script", Step("write", TRUE), inv[p])
                  /\ UNCHANGED last
             ELSE Finish(p, TRUE, "none", Step("write", TRUE))
       \/ /\ CanFail
          /\ \E left \in FailedWrite(cfgFile[g]) :
               cfgFile' = [cfgFile EXCEPT ![g] = left]
          /\ \E code \in ErrCodes :
               Goto(p, "restore", Step("write", FALSE),
                    [inv[p] EXCEPT !.writeError = wrapFileSystemError(code)])
          /\ Fault
          /\ UNCHANGED last
    /\ UNCHANGED <<cfgDir, backups, ntfySh, dataScript, clock, runs>>
    /\ UnchangedTest

\* a variant of the catch block in which the error of the failed restore
\* is the one that leaves safeWriteJsonFile
rethrownRestoreError(error, restoreError) == restoreError

\* safeWriteJsonFile: catch (restoreError) logs it, then throw error
rethrown(error, restoreError) == error

\* safeWriteJsonFile: the catch block, which restores the backup and
\* rethrows the write error
SaveRestore(p) ==
    /\ inv[p].pc = "restore"
    /\ LET g == inv[p].cmd.isGlobal
           backupPath == inv[p].backupPath
       IN  \/ /\ ~(backupPath # 0 /\ backupPath \in DOMAIN backups[g])
              /\ Finish(p, FALSE, inv[p].writeError, Step("norestore", FALSE))
              /\ NoFault
              /\ UNCHANGED cfgFile
           \/ /\ backupPath # 0 /\ backupPath \in DOMAIN backups[g]
              /\ cfgFile' = [cfgFile EXCEPT ![g] = backups[g][backupPath]]
              /\ Finish(p, FALSE, inv[p].writeError, Step("restore", TRUE))
              /\ NoFault
           \/ /\ backupPath # 0 /\ backupPath \in DOMAIN backups[g]
              /\ CanFail
              /\ \E left \in FailedWrite(cfgFile[g]) :
                   cfgFile' = [cfgFile EXCEPT ![g] = left]
              /\ \E code \in ErrCodes :
                   Finish(p, FALSE,
                          rethrown(inv[p].writeError, wrapFileSystemError(code)),
                          Step("restore", FALSE))
              /\ Fault
    /\ UNCHANGED <<cfgDir, backups, ntfySh, dataScript, clock, runs>>
    /\ UnchangedTest

\* hookGenerator.createNtfyScript(topicName, join(configDir, 'ntfy.sh'))
NtfyScript(p) ==
    /\ inv[p].pc = "script"
    /\ LET g == inv[p].cmd.isGlobal IN
       \/ /\ ntfySh' = [ntfySh EXCEPT ![g] = generateNtfyScriptContent(inv[p].value)]
          /\ Finish(p, TRUE, "none", Step("script", TRUE))
          /\ NoFault
       \/ /\ CanFail
          /\ \E left \in FailedWrite(ntfySh[g]) : ntfySh' = [ntfySh EXCEPT ![g] = left]
          /\ Finish(p, FALSE, wrapFileSystemError("none"), Step("script", FALSE))
          /\ Fault
    /\ UNCHANGED <<cfgFile, cfgDir, backups, dataScript, clock, runs>>
    /\ UnchangedTest


(***************************************************************************)
(* Configuration documents a settings.json can hold before the tool runs.  *)
(***************************************************************************)
CustomHook == StopHook("custom", <<"echo custom">>)
OldDiscord == StopHook("discord-notification", <<"old discord command">>)
OtherDiscord == StopHook("discord-notification", <<"other discord command">>)
PreToolUse == Arr(<<Obj([matcher |-> Str(<<"Bash">>), hooks |-> Arr(<<>>)])>>)

\* other top-level keys, another event name, and Stop hooks of other matchers
DocRich ==
    Obj([model |-> Str(<<"opus">>),
         hooks |-> Obj([PreToolUse |-> PreToolUse,
                        Stop |-> Arr(<<OldDiscord, CustomHook>>)])])
\* two Stop hooks with one matcher
DocDup == Obj([hooks |-> Obj([Stop |-> Arr(<<CustomHook, OldDiscord, OtherDiscord>>)])])
\* a JSON array, and a hooks value that is a JSON array
DocArray == Arr(<<>>)
DocHooksArray == Obj([model |-> Str(<<"opus">>), hooks |-> Arr(<<>>)])
\* a Stop hook without matcher
DocNoMatcher == Obj([hooks |-> Obj([Stop |-> Arr(<<Obj([hooks |-> Arr(<<>>)])>>)])])

InitFiles ==
    {Absent, Garbage, JsonText(DocRich, "compact"), JsonText(DocDup, "indent2"),
     JsonText(DocArray, "compact"), JsonText(DocHooksArray, "indent2"),
     JsonText(DocNoMatcher, "indent2")}

NoMerge == [existing |-> Undef, updates |-> Undef]

Init ==
    /\ cfgFile \in [{FALSE} -> InitFiles]
    /\ cfgDir = [g \in DOMAIN cfgFile |-> fileExists(cfgFile[g])]
    /\ backups = [g \in DOMAIN cfgFile |-> <<>>]
    /\ ntfySh = [g \in DOMAIN cfgFile |-> Absent]
    /\ dataScript = Absent
    /\ clock = 1
    /\ pruning \in BOOLEAN
    /\ inv = [p \in {1} |-> Idle]
    /\ last = NoRun
    /\ runs = 0
    /\ faults = 0
    /\ mIn = NoMerge
    /\ mOut = Undef

Next ==
    \/ \E p \in DOMAIN inv : Start(p)
    \/ \E p \in DOMAIN inv : Validate(p)
    \/ \E p \in DOMAIN inv : EnsureDir(p)
    \/ \E p \in DOMAIN inv : Load(p)
    \/ \E p \in DOMAIN inv : Backup(p)
    \/ \E p \in DOMAIN inv : Generate(p)
    \/ \E p \in DOMAIN inv : Merge(p)
    \/ \E p \in DOMAIN inv : Save(p)
    \/ \E p \in DOMAIN inv : SaveWrite(p)
    \/ \E p \in DOMAIN inv : SaveRestore(p)
    \/ \E p \in DOMAIN inv : NtfyScript(p)

Spec == Init /\ [][Next]_vars


(***************************************************************************)
(* mergeConfig as a pure function: the arguments are drawn from bounded    *)
(* sets of documents and updates, and one action applies it.               *)
(***************************************************************************)
SeqsUpTo(S, n) == UNION {[1..k -> S] : k \in 0..n}

HookA == StopHook("a", <<"a old">>)
HookA2 == StopHook("a", <<"a other">>)
HookB == StopHook("b", <<"b old">>)
NewA == StopHook("a", <<"a new">>)
NewB == StopHook("b", <<"b new">>)
NewC == StopHook("c", <<"c new">>)

\* an incoming value of PreToolUse whose entry has the matcher of the base's
NewPreToolUse ==
    Arr(<<Obj([matcher |-> Str(<<"Bash">>),
               hooks |-> Arr(<<Obj([type |-> Str(<<"command">>),
                                    command |-> Str(<<"lint">>)])>>)])>>)

MergeBases ==
    {Obj([model |-> Str(<<"opus">>),
          hooks |-> Obj([PreToolUse |-> PreToolUse, Stop |-> Arr(stop)])]) :
        stop \in SeqsUpTo({HookA, HookA2, HookB}, MaxStop)}
    \cup {EmptyObj,
          Obj([model |-> Str(<<"opus">>)]),
          Obj([hooks |-> Obj([PreToolUse |-> PreToolUse])])}

MergeUpdates ==
    {Obj([hooks |-> Obj([Stop |-> Arr(stop)])]) :
        stop \in SeqsUpTo({NewA, NewB, NewC}, MaxStop)}
    \cup {Obj([model |-> Str(<<"sonnet">>),
               hooks |-> Obj([PreToolUse |-> Arr(<<>>), Stop |-> Arr(stop)])]) :
            stop \in SeqsUpTo({NewA, NewC}, 1)}
    \cup {Obj([hooks |-> Obj([PreToolUse |-> NewPreToolUse])]),
          Obj([hooks |-> Obj([PreToolUse |-> NewPreToolUse, Start |-> Arr(<<>>),
                              Stop |-> Arr(<<NewA>>)])])}

MergeInit ==
    /\ mIn \in [existing : MergeBases, updates : MergeUpdates]
    /\ mOut = Undef
    /\ cfgFile = [g \in {FALSE} |-> Absent]
    /\ cfgDir = [g \in {FALSE} |-> FALSE]
    /\ backups = [g \in {FALSE} |-> <<>>]
    /\ ntfySh = [g \in {FALSE} |-> Absent]
    /\ dataScript = Absent
    /\ clock = 1
    /\ pruning = FALSE
    /\ inv = [p \in {1} |-> Idle]
    /\ last = NoRun
    /\ runs = 0
    /\ faults = 0

\* result = configManager.mergeConfig(existing, updates)
DoMerge ==
    /\ mOut = Undef
    /\ mOut' = mergeConfig(mIn.existing, mIn.updates)
    /\ UNCHANGED <<cfgFile, cfgDir, backups, ntfySh, dataScript, clock, pruning,
                   inv, last, runs, faults, mIn>>

MergeNext == DoMerge

MergeSpec == MergeInit /\ [][MergeNext]_vars

(***************************************************************************)
(* Reading documents.                                                      *)
(***************************************************************************)
\* hooks.Stop of a document as a sequence, empty when there is none
StopOf(doc) ==
    LET stop == Get(Get(doc, "hooks"), "Stop")
    IN  IF IsArray(stop) THEN stop.v ELSE <<>>

MatcherOf(hook) == Get(hook, "matcher")
MatchersOf(stop) == {MatcherOf(stop[i]) : i \in 1..Len(stop)}
CountMatcher(stop, m) == Cardinality({i \in 1..Len(stop) : MatcherOf(stop[i]) = m})
FirstWith(stop, m) ==
    CHOOSE i \in 1..Len(stop) :
        /\ MatcherOf(stop[i]) = m
        /\ \A j \in 1..(i - 1) : MatcherOf(stop[j]) # m
LastWith(stop, m) ==
    CHOOSE i \in 1..Len(stop) :
        /\ MatcherOf(stop[i]) = m
        /\ \A j \in (i + 1)..Len(stop) : MatcherOf(stop[j]) # m

(***************************************************************************)
(* C1.  mergeConfig on hooks.Stop: an incoming hook whose matcher the      *)
(* base array already has replaces that entry at its index, and the length *)
(* of the array and every other entry stay as they were; an incoming hook  *)
(* with a new matcher is appended at the end.                              *)
(***************************************************************************)
C1_ReplaceOrAppend ==
    mOut # Undef =>
        LET base == StopOf(mIn.existing)
            news == StopOf(mIn.updates)
            res == StopOf(mOut)
            fresh == MatchersOf(news) \ MatchersOf(base)
        IN  /\ Len(res) = Len(base) + Cardinality(fresh)
            /\ \A i \in 1..Len(base) :
                 res[i] = IF /\ MatcherOf(base[i]) \in MatchersOf(news)
                             /\ i = FirstWith(base, MatcherOf(base[i]))
                          THEN news[LastWith(news, MatcherOf(base[i]))]
                          ELSE base[i]
            /\ \A k \in (Len(base) + 1)..Len(res) :
                 /\ MatcherOf(res[k]) \in fresh
                 /\ res[k] = news[LastWith(news, MatcherOf(res[k]))]
                 /\ \A k2 \in (k + 1)..Len(res) :
                      FirstWith(news, MatcherOf(res[k])) < FirstWith(news, MatcherOf(res[k2]))

\* existing Stop = [a, b] merged with an update for matcher a
C1_Witness ==
    /\ StopOf(mIn.existing) = <<HookA, HookB>>
    /\ StopOf(mIn.updates) = <<NewA>>
    /\ mOut # Undef
    /\ StopOf(mOut) = <<NewA, HookB>>

(***************************************************************************)
(* Reading the history of invocations.                                     *)
(***************************************************************************)
\* the invocation recorded in last has ended and nothing has started since
Ended == last.cmd # NoCmd /\ \A p \in DOMAIN inv : inv[p].pc = "idle"

\* the step is among the steps done
Did(steps, step) == \E i \in 1..Len(steps) : steps[i] = step

\* the value a command works with once its argument is sanitized
ValueOf(cmd) == IF cmd.ch = "macos" THEN cmd.arg ELSE sanitizeInput(cmd.arg)

\* the matcher of the channel as it stands in a document
MatcherStr(ch) == Str(<<Matcher(ch)>>)

\* the document in the configuration file of scope g, {} when it is not JSON
DocOf(content) == IF CanParse(content) THEN JSONparse(content) ELSE EmptyObj

\* value is a contiguous part of text
Embeds(text, value) ==
    \E i \in 0..(Len(text) - Len(value)) : SubSeq(text, i + 1, i + Len(value)) = value

\* the text of the command field of hooks[0] of a Stop hook
CommandOf(hook) == Get(Get(hook, "hooks").v[1], "command").v

(***************************************************************************)
(* C2.  Idempotence of re-invocation: when the same channel command has    *)
(* run twice in a row with identical input on the same configuration file, *)
(* both times with success, the file holds a document whose hooks.Stop has *)
(* exactly one entry with the matcher of that channel.                     *)
(***************************************************************************)
C2_OneEntryAfterRepeat ==
    (Ended /\ last.ok /\ last.prevOk /\ last.prevCmd = last.cmd) =>
        LET f == cfgFile[last.cmd.isGlobal]
        IN  /\ CanParse(f)
            /\ CountMatcher(StopOf(JSONparse(f)), MatcherStr(last.cmd.ch)) = 1

(***************************************************************************)
(* C3.  Round-trip preservation: when a command has merged its hook into   *)
(* a document D on disk and saved it, the document the next load returns   *)
(* has every top-level key of D other than hooks, every event name of      *)
(* D.hooks other than Stop, and every Stop entry of D whose matcher is not *)
(* the one of the command, equal to what it was in D and, for a Stop       *)
(* entry, at the index it had in D.                                        *)
(***************************************************************************)
C3_RoundTripPreserves ==
    \A p \in DOMAIN inv :
        (/\ inv[p].pc = "backup"
         /\ inv[p].prevOk
         /\ inv[p].prevCmd.isGlobal = inv[p].cmd.isGlobal
         /\ CanParse(inv[p].prevPre.file)) =>
            LET D == JSONparse(inv[p].prevPre.file)
                loaded == inv[p].existingConfig
            IN  /\ \A k \in Keys(D) \ {"hooks"} : Get(loaded, k) = Get(D, k)
                /\ \A e \in Keys(Get(D, "hooks")) \ {"Stop"} :
                     Get(Get(loaded, "hooks"), e) = Get(Get(D, "hooks"), e)
                /\ \A n \in 1..Len(StopOf(D)) :
                     MatcherOf(StopOf(D)[n]) # MatcherStr(inv[p].prevCmd.ch) =>
                        /\ n <= Len(StopOf(loaded))
                        /\ StopOf(loaded)[n] = StopOf(D)[n]

\* the ntfy command has run on DocRich, and the next command has loaded the
\* file: model, PreToolUse and the two Stop hooks of DocRich are there,
\* followed by the ntfy hook
C3_Witness ==
    \E p \in DOMAIN inv :
        /\ inv[p].pc = "backup"
        /\ inv[p].prevOk
        /\ inv[p].prevCmd.ch = "ntfy"
        /\ inv[p].prevPre.file = JsonText(DocRich, "compact")
        /\ Get(inv[p].existingConfig, "model") = Str(<<"opus">>)
        /\ Get(Get(inv[p].existingConfig, "hooks"), "PreToolUse") = PreToolUse
        /\ Len(StopOf(inv[p].existingConfig)) = 3
        /\ SubSeq(StopOf(inv[p].existingConfig), 1, 2) = <<OldDiscord, CustomHook>>
        /\ MatcherOf(StopOf(inv[p].existingConfig)[3]) = MatcherStr("ntfy")

(***************************************************************************)
(* C4.  Backup-and-restore on write failure: when saveConfig was called on *)
(* an existing file, safeWriteJsonFile created its backup, and the write   *)
(* of the new content then failed, the file holds, once the call has       *)
(* returned with the error, exactly what it held before the call.          *)
(***************************************************************************)
C4_RestoredAfterFailedWrite ==
    (/\ Ended
     /\ fileExists(last.pre.file)
     /\ Did(last.steps, Step("save", TRUE))
     /\ Did(last.steps, Step("write", FALSE))) =>
        cfgFile[last.cmd.isGlobal] = last.pre.file

(***************************************************************************)
(* C5.  Backup before destructive write: in an invocation that started     *)
(* with an existing configuration file, whenever the invocation is about   *)
(* to write the file for the first time, or has written it, a backup file  *)
(* holds the content the file had before the invocation; and an            *)
(* invocation in which a backup could not be created has no write step and *)
(* leaves the file as it was.                                              *)
(***************************************************************************)
HasBackupOf(g, content) == \E t \in DOMAIN backups[g] : backups[g][t] = content

C5_BackupBeforeWrite ==
    /\ \A p \in DOMAIN inv :
         (/\ inv[p].pc # "idle"
          /\ fileExists(inv[p].pre.file)
          /\ \/ inv[p].pc = "write"
             \/ Did(inv[p].steps, Step("write", TRUE))
             \/ Did(inv[p].steps, Step("write", FALSE))
             \/ cfgFile[inv[p].cmd.isGlobal] # inv[p].pre.file) =>
              /\ HasBackupOf(inv[p].cmd.isGlobal, inv[p].pre.file)
              /\ Did(inv[p].steps, Step("backup", TRUE))
    /\ (/\ Ended
        /\ fileExists(last.pre.file)
        /\ \/ Did(last.steps, Step("write", TRUE))
           \/ Did(last.steps, Step("write", FALSE))
           \/ cfgFile[last.cmd.isGlobal] # last.pre.file) =>
            /\ HasBackupOf(last.cmd.isGlobal, last.pre.file)
            /\ Did(last.steps, Step("backup", TRUE))
    /\ (/\ Ended
        /\ \/ Did(last.steps, Step("backup", FALSE))
           \/ /\ fileExists(last.pre.file)
              /\ last.steps[Len(last.steps)] = Step("save", FALSE)) =>
            /\ ~Did(last.steps, Step("write", TRUE))
            /\ ~Did(last.steps, Step("write", FALSE))
            /\ cfgFile[last.cmd.isGlobal] = last.pre.file

\* the invocation started with a file, both backups are made, and the write
\* of safeWriteJsonFile is next
C5_Witness ==
    \E p \in DOMAIN inv :
        /\ inv[p].pc = "write"
        /\ fileExists(inv[p].pre.file)
        /\ cfgFile[inv[p].cmd.isGlobal] = inv[p].pre.file
        /\ HasBackupOf(inv[p].cmd.isGlobal, inv[p].pre.file)

(***************************************************************************)
(* C6.  The store never leaves a half-written file: after any saveConfig   *)
(* call, ended with success or with an error, the configuration file holds *)
(* either the complete new JSON content or exactly what it held before the *)
(* call (absent, when it was absent).                                      *)
(***************************************************************************)
\* the text saveConfig is given to write by the invocation recorded in last
NewContent ==
    JSONstringify(mergeConfig(DocOf(last.pre.file),
                              Obj([hooks |-> Obj([Stop |-> Arr(<<last.hook>>)])])))

C6_NoHalfWrittenFile ==
    (/\ Ended
     /\ \/ Did(last.steps, Step("save", TRUE))
        \/ Did(last.steps, Step("save", FALSE))) =>
        cfgFile[last.cmd.isGlobal] \in {last.pre.file, NewContent}

(***************************************************************************)
(* C7.  Invalid input never reaches persisted state: a command whose       *)
(* webhook URL or topic name fails validation (as the http:// URL and the  *)
(* topic "-a" do) ends with the validation error after that one step, and  *)
(* the configuration directory, the configuration file, the backups and    *)
(* the scripts are as they were before the command.                        *)
(***************************************************************************)
C7_InvalidInputChangesNothing ==
    Ended =>
        /\ (\/ last.cmd.ch = "discord" /\ last.cmd.arg = UrlHttp
            \/ last.cmd.ch = "ntfy" /\ last.cmd.arg = <<"-", "a">>) =>
               last.steps = <<Step("validate", FALSE)>>
        /\ Did(last.steps, Step("validate", FALSE)) =>
               /\ last.steps = <<Step("validate", FALSE)>>
               /\ ~last.ok
               /\ last.err = (IF last.cmd.ch = "discord" THEN "INVALID_WEBHOOK_URL"
                              ELSE "INVALID_TOPIC_NAME")
               /\ last.hook = Undef
               /\ Snapshot(last.cmd.isGlobal) = last.pre
               /\ dataScript = last.pre.dataScript

\* the ntfy command with the topic "-a" has ended, on a file that exists and
\* after an earlier command made a backup
C7_Witness ==
    /\ Ended
    /\ last.cmd.ch = "ntfy"
    /\ last.cmd.arg = <<"-", "a">>
    /\ last.err = "INVALID_TOPIC_NAME"
    /\ fileExists(cfgFile[last.cmd.isGlobal])
    /\ backups[last.cmd.isGlobal] # <<>>

SecondOfTwo ==
    /\ Ended
    /\ last.ok
    /\ last.prevOk
    /\ last.prevPre.file = Absent
    /\ last.prevCmd.ch = last.cmd.ch
    /\ last.prevCmd.isGlobal = last.cmd.isGlobal
    /\ ValueOf(last.prevCmd) # last.value

\* hooks.Stop of the file is one entry of the channel, of type command
OneEntryOfChannel ==
    LET f == cfgFile[last.cmd.isGlobal]
        stop == StopOf(DocOf(f))
    IN  /\ CanParse(f)
        /\ Len(stop) = 1
        /\ MatcherOf(stop[1]) = MatcherStr(last.cmd.ch)
        /\ Len(Get(stop[1], "hooks").v) = 1
        /\ Get(Get(stop[1], "hooks").v[1], "type") = Str(<<"command">>)

\* the command field of the one Stop entry of a file
CommandIn(content) == CommandOf(StopOf(DocOf(content))[1])

UniqueMatchers(doc) ==
    \A e \in Keys(Get(doc, "hooks")) :
        LET entries == Get(Get(doc, "hooks"), e)
        IN  IsArray(entries) =>
                \A i, j \in 1..Len(entries.v) :
                    MatcherOf(entries.v[i]) = MatcherOf(entries.v[j]) => i = j

C10_UniqueMatchers ==
    /\ \A p \in DOMAIN inv :
         inv[p].existingConfig # Undef => UniqueMatchers(inv[p].existingConfig)
    /\ (Ended /\ Did(last.steps, Step("write", TRUE))) =>
         UniqueMatchers(DocOf(cfgFile[last.cmd.isGlobal]))

(***************************************************************************)
(* loadConfig as a function of the content of the file at path, applied    *)
(* to a bounded set of files: scalars, arrays, and objects whose hooks,    *)
(* event names, Stop hooks and actions have every shape validateConfig     *)
(* tells apart.                                                            *)
(***************************************************************************)
MaxEntries == 2

\* what loadConfig returns, or the ErrorType it throws
Returned(config) == [ok |-> TRUE, config |-> config, err |-> "none"]
Thrown(err) == [ok |-> FALSE, config |-> Undef, err |-> err]

\* a load that reads the file without asking whether it exists
loadConfigNoExistsCheck(content) ==
    IF ~CanParse(content) THEN Thrown("JSON_PARSE_ERROR")
    ELSE IF ValidateConfig(JSONparse(content)) # "ok" THEN Thrown("JSON_PARSE_ERROR")
    ELSE Returned(JSONparse(content))

loadConfig(content) ==
    IF ~fileExists(content) THEN Returned(EmptyObj)
    ELSE IF ~CanParse(content) THEN Thrown("JSON_PARSE_ERROR")
    ELSE IF ValidateConfig(JSONparse(content)) # "ok" THEN Thrown("JSON_PARSE_ERROR")
    ELSE Returned(JSONparse(content))

Scalars ==
    {Null, Str(<<>>), Str(<<"x">>), Num(<<"0">>), Num(<<"42">>),
     Bool(<<"false">>), Bool(<<"true">>)}

Command(c) == Obj([type |-> Str(<<"command">>), command |-> c])

\* entries of hooks.Stop: well-formed ones, and one for each check of
\* validateConfig that fails
StopEntries ==
    {CustomHook, OldDiscord, Null, Str(<<"x">>),
     Obj([hooks |-> Arr(<<>>)]),
     Obj([matcher |-> Num(<<"42">>), hooks |-> Arr(<<>>)]),
     Obj([matcher |-> Str(<<"m">>)]),
     Obj([matcher |-> Str(<<"m">>), hooks |-> EmptyObj]),
     Obj([matcher |-> Str(<<"m">>), hooks |-> Arr(<<Null>>)]),
     Obj([matcher |-> Str(<<"m">>),
          hooks |-> Arr(<<Obj([type |-> Str(<<"script">>), command |-> Str(<<"c">>)])>>)]),
     Obj([matcher |-> Str(<<"m">>), hooks |-> Arr(<<Command(Num(<<"42">>))>>)]),
     Obj([matcher |-> Str(<<"m">>), hooks |-> Arr(<<Obj([type |-> Str(<<"command">>)])>>)])}

StopValues ==
    {Null, Str(<<"x">>), Num(<<"42">>), Bool(<<"true">>), EmptyObj}
    \cup {Arr(stop) : stop \in SeqsUpTo(StopEntries, MaxEntries)}

\* values of an event name other than Stop
EventValues ==
    {PreToolUse, Arr(<<>>), Arr(<<Str(<<"x">>)>>), Null, Str(<<"x">>), Num(<<"42">>),
     Bool(<<"true">>), EmptyObj}

HooksValues ==
    Scalars
    \cup {Arr(<<>>), Arr(<<CustomHook>>), EmptyObj}
    \cup {Obj([Stop |-> stop]) : stop \in StopValues}
    \cup {Obj([PreToolUse |-> ev]) : ev \in EventValues}
    \cup {Obj([Stop |-> Arr(<<CustomHook>>), PreToolUse |-> ev]) : ev \in EventValues}

LoadDocs ==
    Scalars
    \cup {Arr(<<>>), Arr(<<Str(<<"x">>)>>), Arr(<<CustomHook>>),
          EmptyObj, Obj([model |-> Str(<<"opus">>)])}
    \cup {Obj([hooks |-> hooks]) : hooks \in HooksValues}
    \cup {Obj([model |-> Str(<<"opus">>), hooks |-> hooks]) :
            hooks \in {Null, Arr(<<>>), Obj([PreToolUse |-> Str(<<"x">>)]),
                       Obj([Stop |-> Arr(<<CustomHook, OldDiscord>>)])}}

LoadFiles ==
    {Absent, Garbage, Partial} \cup {JsonText(doc, "indent2") : doc \in LoadDocs}

LoadInit ==
    /\ cfgFile \in [{FALSE} -> LoadFiles]
    /\ cfgDir \in {d \in [{FALSE} -> BOOLEAN] : fileExists(cfgFile[FALSE]) => d[FALSE]}
    /\ backups = [g \in {FALSE} |-> <<>>]
    /\ ntfySh = [g \in {FALSE} |-> Absent]
    /\ dataScript = Absent
    /\ clock = 1
    /\ pruning = FALSE
    /\ inv = [p \in {1} |-> Idle]
    /\ last = NoRun
    /\ runs = 0
    /\ faults = 0
    /\ mIn = NoMerge
    /\ mOut = Undef

\* result = await configManager.loadConfig(configPath)
DoLoad ==
    /\ mOut = Undef
    /\ mOut' = loadConfig(cfgFile[FALSE])
    /\ UNCHANGED <<cfgFile, cfgDir, backups, ntfySh, dataScript, clock, pruning,
                   inv, last, runs, faults, mIn>>

LoadNext == DoLoad

LoadSpec == LoadInit /\ [][LoadNext]_vars

(***************************************************************************)
(* C11.  loadConfig fails with JSON_PARSE_ERROR, returning nothing,        *)
(* whenever the parsed content of the file is not a JSON object: a JSON    *)
(* array, a scalar or null.                                                *)
(***************************************************************************)
C11_NonObjectRejected ==
    (/\ mOut # Undef
     /\ CanParse(cfgFile[FALSE])
     /\ JSONparse(cfgFile[FALSE]).t # "obj") =>
        mOut = Thrown("JSON_PARSE_ERROR")

(***************************************************************************)
(* C12.  Shape validation rejects every document in which hooks is present *)
(* but is not a JSON object that maps each event name present to an array: *)
(* hooks being an array or a scalar, or the value of any event name, Stop  *)
(* or another, not being an array, makes loadConfig fail with              *)
(* JSON_PARSE_ERROR.                                                       *)
(***************************************************************************)
\* hooks is an object whose event names all hold arrays
EventMap(hooks) ==
    /\ hooks.t = "obj"
    /\ \A e \in Keys(hooks) : IsArray(Get(hooks, e))

C12_HooksShapeRejected ==
    (/\ mOut # Undef
     /\ CanParse(cfgFile[FALSE])
     /\ JSONparse(cfgFile[FALSE]).t = "obj"
     /\ "hooks" \in Keys(JSONparse(cfgFile[FALSE]))
     /\ ~EventMap(Get(JSONparse(cfgFile[FALSE]), "hooks"))) =>
        mOut = Thrown("JSON_PARSE_ERROR")

(***************************************************************************)
(* saveConfig called with any document, on a file that exists or not: the  *)
(* steps Save, SaveWrite and SaveRestore of an invocation that begins at   *)
(* the call.  mIn.existing keeps the document the call was given.          *)
(***************************************************************************)
SaveDocs == LoadDocs \cup {Undef}

SaveInit ==
    /\ cfgFile \in [{FALSE} -> {Absent, JsonText(DocRich, "compact")}]
    /\ cfgDir = [g \in {FALSE} |-> TRUE]
    /\ backups = [g \in {FALSE} |-> <<>>]
    /\ ntfySh = [g \in {FALSE} |-> Absent]
    /\ dataScript = Absent
    /\ clock = 1
    /\ pruning \in BOOLEAN
    /\ \E doc \in SaveDocs :
         /\ mIn = [existing |-> doc, updates |-> Undef]
         /\ inv = [p \in {1} |->
                    [Idle EXCEPT !.pc = "save",
                                 !.cmd = [ch |-> "discord", arg |-> Url1, isGlobal |-> FALSE],
                                 !.value = Url1,
                                 !.updatedConfig = doc,
                                 !.pre = Snapshot(FALSE)]]
    /\ last = NoRun
    /\ runs = 0
    /\ faults = 0
    /\ mOut = Undef

SaveNext ==
    \/ Save(1)
    \/ SaveWrite(1)
    \/ SaveRestore(1)

SaveSpec == SaveInit /\ [][SaveNext]_vars

\* the shape rules of a configuration document: an object; hooks, if
\* present, an object of arrays; every Hook Entry an object with a string
\* matcher and an array hooks; every Action Entry an object with type
\* "command" and a string command
ActionShape(h) ==
    /\ h.t = "obj"
    /\ Get(h, "type") = Str(<<"command">>)
    /\ Get(h, "command").t = "str"

EntryShape(hook) ==
    /\ hook.t = "obj"
    /\ Get(hook, "matcher").t = "str"
    /\ IsArray(Get(hook, "hooks"))
    /\ \A i \in 1..Len(Get(hook, "hooks").v) : ActionShape(Get(hook, "hooks").v[i])

ShapeRules(doc) ==
    /\ doc.t = "obj"
    /\ "hooks" \in Keys(doc) =>
         /\ EventMap(Get(doc, "hooks"))
         /\ \A e \in Keys(Get(doc, "hooks")) :
              \A i \in 1..Len(Get(Get(doc, "hooks"), e).v) :
                  EntryShape(Get(Get(doc, "hooks"), e).v[i])

\* the content of the file when saveConfig was called
FileAtCall == IF inv[1].pc = "idle" THEN last.pre.file ELSE inv[1].pre.file

(***************************************************************************)
(* C13.  saveConfig re-validates the document before it touches the        *)
(* filesystem: given a document that violates the shape rules, it fails    *)
(* with JSON_PARSE_ERROR at once, no backup is created, and the file at    *)
(* path is not written or changed.                                         *)
(***************************************************************************)
C13_InvalidNeverSaved ==
    ~ShapeRules(mIn.existing) =>
        /\ backups[FALSE] = <<>>
        /\ cfgFile[FALSE] = FileAtCall
        /\ inv[1].pc \in {"save", "idle"}
        /\ inv[1].pc = "idle" =>
             /\ ~last.ok
             /\ last.err = "JSON_PARSE_ERROR"
             /\ last.steps = <<Step("save", FALSE)>>

(***************************************************************************)
(* C14.  When the write fails and the restore from the backup fails too,   *)
(* the error the caller gets is the error of the write: the error of the   *)
(* restore never takes its place.                                          *)
(***************************************************************************)
C14_WriteErrorReported ==
    [][\A p \in DOMAIN inv :
         (inv[p].pc = "restore" /\ inv'[p].pc = "idle"
          /\ Did(last'.steps, Step("restore", FALSE))) =>
             /\ ~last'.ok
             /\ last'.err = inv[p].writeError
             /\ Did(last'.steps, Step("write", FALSE))]_vars

\* an invocation ended after a failed write and a failed restore, with
\* DIRECTORY_ACCESS_ERROR as the error of the write
C14_Witness ==
    /\ Ended
    /\ Did(last.steps, Step("write", FALSE))
    /\ Did(last.steps, Step("restore", FALSE))
    /\ last.err = "DIRECTORY_ACCESS_ERROR"

(***************************************************************************)
(* C15.  Whenever the creation of the backup of an existing configuration  *)
(* file fails, the invocation ends with an error of type                   *)
(* CONFIG_BACKUP_ERROR and of no other type.                               *)
(***************************************************************************)
C15_BackupFailureKind ==
    (Ended /\ Did(last.steps, Step("backup", FALSE))) =>
        last.err = "CONFIG_BACKUP_ERROR"

(***************************************************************************)
(* createNtfyScript and createMacOSScript on their own: the directory of   *)
(* the script, the write and the chmod each succeed or fail with a code.   *)
(* mIn is the call with the file as it finds it, mOut the error thrown     *)
(* ("none" when the call returns) with the file as it leaves it.           *)
(***************************************************************************)
FsOutcomes == {"ok"} \cup ErrCodes
ChmodOutcomes == {"ok", "EPERM"}
Platforms == {"linux", "win32"}

\* a script file: its content, and whether its mode lets it be executed
ScriptFile(content, executable) == [content |-> content, executable |-> executable]
ScriptFilesBefore ==
    {ScriptFile(Absent, FALSE),
     ScriptFile(ScriptText(<<"#!/bin/bash old">>), TRUE),
     ScriptFile(ScriptText(<<"#!/bin/bash old">>), FALSE)}

\* the catch block of createNtfyScript / createMacOSScript
createScriptError(error) ==
    IF IsCCNotifyError(error) THEN error ELSE "SCRIPT_CREATION_ERROR"

\* the error createNtfyScript / createMacOSScript throws, "none" if it returns:
\* a failure of ensureDirectory or of writeFile is wrapped and thrown, a
\* failure of chmod is logged as a warning
createScriptThrows(fs) ==
    IF fs.mkdir # "ok" THEN createScriptError(wrapFileSystemError(fs.mkdir))
    ELSE IF fs.write # "ok" THEN createScriptError(wrapFileSystemError(fs.write))
    ELSE "none"

\* chmod(scriptPath, 0o755) was called and failed
ChmodFailed(call) ==
    /\ call.fs.mkdir = "ok" /\ call.fs.write = "ok"
    /\ call.platform # "win32"
    /\ call.fs.chmod # "ok"

\* the script file after the call
ScriptFilesAfter(call) ==
    IF call.fs.mkdir # "ok" THEN {call.before}
    ELSE IF call.fs.write # "ok"
    THEN {ScriptFile(left, call.before.executable) :
            left \in FailedWrite(call.before.content)}
    ELSE {ScriptFile(IF call.script = "ntfy"
                     THEN generateNtfyScriptContent(call.value)
                     ELSE generateMacOSScriptContent(call.value),
                     IF call.platform # "win32" /\ call.fs.chmod = "ok"
                     THEN TRUE ELSE call.before.executable)}

ScriptCalls ==
    [script : {"ntfy", "macos"}, value : {<<"T">>}, platform : Platforms,
     before : ScriptFilesBefore,
     fs : [mkdir : FsOutcomes, write : FsOutcomes, chmod : ChmodOutcomes]]

ScriptInit ==
    /\ cfgFile = [g \in {FALSE} |-> Absent]
    /\ cfgDir = [g \in {FALSE} |-> TRUE]
    /\ backups = [g \in {FALSE} |-> <<>>]
    /\ ntfySh = [g \in {FALSE} |-> Absent]
    /\ dataScript = Absent
    /\ clock = 1
    /\ pruning = FALSE
    /\ inv = [p \in {1} |-> Idle]
    /\ last = NoRun
    /\ runs = 0
    /\ faults = 0
    /\ mIn \in ScriptCalls
    /\ mOut = Undef

DoScript ==
    /\ mOut = Undef
    /\ \E after \in ScriptFilesAfter(mIn) :
         mOut' = [err |-> createScriptThrows(mIn.fs), file |-> after]
    /\ UNCHANGED <<cfgFile, cfgDir, backups, ntfySh, dataScript, clock, pruning,
                   inv, last, runs, faults, mIn>>

ScriptNext == DoScript

ScriptSpec == ScriptInit /\ [][ScriptNext]_vars

(***************************************************************************)
(* C16.  If writing a generated script fails, or making it executable      *)
(* fails, the call throws a SCRIPT_CREATION_ERROR, which ends the          *)
(* invocation.                                                             *)
(***************************************************************************)
C16_ScriptFailureKind ==
    (mOut # Undef
     /\ \/ mIn.fs.mkdir = "ok" /\ mIn.fs.write # "ok"
        \/ ChmodFailed(mIn)) =>
        mOut.err = "SCRIPT_CREATION_ERROR"

(***************************************************************************)
(* The exit status of a failed invocation: the catch block of each         *)
(* subcommand's action handler applied to the error the handler threw.     *)
(* An error is the type of a CCNotifyError, or "Error" for any other       *)
(* value thrown.  mIn holds two failures, mOut the exit status of each.    *)
(***************************************************************************)
\* CCNotifyError.getExitCodeForType, with the values of the enum ExitCode
getExitCodeForType(errorType) ==
    CASE errorType \in {"INVALID_WEBHOOK_URL", "INVALID_TOPIC_NAME", "VALIDATION_ERROR"} -> 2
      [] errorType = "FILE_PERMISSION_ERROR" -> 3
      [] errorType = "JSON_PARSE_ERROR" -> 4
      [] errorType = "CONFIG_BACKUP_ERROR" -> 5
      [] errorType = "DIRECTORY_ACCESS_ERROR" -> 6
      [] errorType = "SCRIPT_CREATION_ERROR" -> 7
      [] errorType = "NETWORK_ERROR" -> 9
      [] errorType = "COMMAND_ERROR" -> 10
      [] OTHER -> 1

\* getExitCode of commands/discord.ts and of commands/ntfy.ts
getExitCode(ch, errorType) ==
    CASE ch = "discord" /\ errorType = "INVALID_WEBHOOK_URL" -> 2
      [] ch = "ntfy" /\ errorType = "INVALID_TOPIC_NAME" -> 2
      [] errorType = "FILE_PERMISSION_ERROR" -> 3
      [] errorType = "JSON_PARSE_ERROR" -> 4
      [] errorType = "CONFIG_BACKUP_ERROR" -> 5
      [] OTHER -> 1

\* errorHandler.wrapUnknownError
wrapUnknownError(error) == IF IsCCNotifyError(error) THEN error ELSE "COMMAND_ERROR"

\* the status the process exits with: handleCommandError of discord.ts and
\* ntfy.ts, errorHandler.handleUnknownError for macos
handleCommandError(ch, error) ==
    IF ch = "macos" THEN getExitCodeForType(wrapUnknownError(error))
    ELSE IF IsCCNotifyError(error) THEN getExitCode(ch, error)
    ELSE 1

Failures == [ch : {"discord", "ntfy", "macos"}, error : ErrorType \cup {"Error"}]
NotExited == 0 - 1

ExitInit ==
    /\ cfgFile = [g \in {FALSE} |-> Absent]
    /\ cfgDir = [g \in {FALSE} |-> TRUE]
    /\ backups = [g \in {FALSE} |-> <<>>]
    /\ ntfySh = [g \in {FALSE} |-> Absent]
    /\ dataScript = Absent
    /\ clock = 1
    /\ pruning = FALSE
    /\ inv = [p \in {1} |-> Idle]
    /\ last = NoRun
    /\ runs = 0
    /\ faults = 0
    /\ mIn \in [1..2 -> Failures]
    /\ mOut = [i \in 1..2 |-> NotExited]

Exit(i) ==
    /\ mOut[i] = NotExited
    /\ mOut' = [mOut EXCEPT ![i] = handleCommandError(mIn[i].ch, mIn[i].error)]
    /\ UNCHANGED <<cfgFile, cfgDir, backups, ntfySh, dataScript, clock, pruning,
                   inv, last, runs, faults, mIn>>

ExitNext == \E i \in 1..2 : Exit(i)

ExitSpec == ExitInit /\ [][ExitNext]_vars

\* the error kind of an error type
Kind(errorType) ==
    CASE errorType \in {"INVALID_WEBHOOK_URL", "INVALID_TOPIC_NAME", "VALIDATION_ERROR"} ->
           "InvalidInput"
      [] errorType = "FILE_PERMISSION_ERROR" -> "FilePermission"
      [] errorType = "JSON_PARSE_ERROR" -> "JsonParse"
      [] errorType = "CONFIG_BACKUP_ERROR" -> "ConfigBackup"
      [] errorType = "DIRECTORY_ACCESS_ERROR" -> "DirectoryAccess"
      [] errorType = "SCRIPT_CREATION_ERROR" -> "ScriptCreation"
      [] errorType = "COMMAND_ERROR" -> "Command"
      [] OTHER -> "other"

Path(abs, segs) == [abs |-> abs, segs |-> segs]
EmptyString == Path(FALSE, <<>>)

\* path.join(dir, ...segs): empty arguments are skipped
join(dir, segs) == Path(dir.abs, dir.segs \o segs)

\* what os.homedir() does: returns a directory, returns '', or throws
HomedirThrows == [throws |-> "Error"]
Homes ==
    {Path(TRUE, <<"home", "u">>), Path(TRUE, <<"root">>), EmptyString, HomedirThrows}
Cwds == {Path(TRUE, <<"work">>), Path(TRUE, <<>>), Path(TRUE, <<"home", "u">>)}

PathReturned(path) == [ok |-> TRUE, path |-> path, err |-> "none"]
PathThrown(err) == [ok |-> FALSE, path |-> EmptyString, err |-> err]

\* PathResolverImpl.getHomeDirectory, which throws an error of the given
\* type when homedir() returns '' or throws
getHomeDirectory(home, errorType) ==
    IF home = HomedirThrows \/ home = EmptyString THEN PathThrown(errorType)
    ELSE PathReturned(home)

\* PathResolverImpl.getConfigPath through getConfigDirectory
resolverGetConfigPath(isGlobal, home, cwd, errorType) ==
    IF isGlobal
    THEN IF getHomeDirectory(home, errorType).ok
         THEN PathReturned(join(getHomeDirectory(home, errorType).path,
                                <<".claude", "settings.json">>))
         ELSE getHomeDirectory(home, errorType)
    ELSE PathReturned(join(cwd, <<".claude", "settings.json">>))

\* ConfigManagerImpl.getConfigPath
getConfigPath(isGlobal, home, cwd) ==
    IF isGlobal
    THEN IF home = HomedirThrows THEN PathThrown(home.throws)
         ELSE PathReturned(join(home, <<".claude", "settings.json">>))
    ELSE PathReturned(join(cwd, <<".claude", "settings.json">>))

PathImpls == {"configManager", "pathResolver", "utils/paths"}

PathCalls == [impl : PathImpls, isGlobal : BOOLEAN, home : Homes, cwd : Cwds]

PathInit ==
    /\ cfgFile = [g \in {FALSE} |-> Absent]
    /\ cfgDir = [g \in {FALSE} |-> TRUE]
    /\ backups = [g \in {FALSE} |-> <<>>]
    /\ ntfySh = [g \in {FALSE} |-> Absent]
    /\ dataScript = Absent
    /\ clock = 1
    /\ pruning = FALSE
    /\ inv = [p \in {1} |-> Idle]
    /\ last = NoRun
    /\ runs = 0
    /\ faults = 0
    /\ mIn \in PathCalls
    /\ mOut = Undef

DoGetConfigPath ==
    /\ mOut = Undef
    /\ mOut' = CASE mIn.impl = "configManager" ->
                      getConfigPath(mIn.isGlobal, mIn.home, mIn.cwd)
                 [] mIn.impl = "pathResolver" ->
                      resolverGetConfigPath(mIn.isGlobal, mIn.home, mIn.cwd,
                                            "DIRECTORY_ACCESS_ERROR")
                 [] mIn.impl = "utils/paths" ->
                      resolverGetConfigPath(mIn.isGlobal, mIn.home, mIn.cwd,
                                            "FILE_PERMISSION_ERROR")
    /\ UNCHANGED <<cfgFile, cfgDir, backups, ntfySh, dataScript, clock, pruning,
                   inv, last, runs, faults, mIn>>

PathNext == DoGetConfigPath

PathSpec == PathInit /\ [][PathNext]_vars

(***************************************************************************)
(* C18.  getConfigPath(isGlobal = true) of the configuration store throws  *)
(* a DIRECTORY_ACCESS_ERROR whenever os.homedir() returns the empty string *)
(* or throws; it never returns a path built from an empty home directory.  *)
(***************************************************************************)
C18_NoPathFromEmptyHome ==
    (mOut # Undef /\ mIn.impl = "configManager" /\ mIn.isGlobal
     /\ mIn.home \in {EmptyString, HomedirThrows}) =>
        mOut = PathThrown("DIRECTORY_ACCESS_ERROR")

(***************************************************************************)
(* mergeConfig on objects in memory.  The heap is a sequence of objects    *)
(* and arrays whose properties and elements are scalars or references to   *)
(* other cells, so that an assignment through one reference is seen        *)
(* through every other reference to the same cell.  existing and updates   *)
(* are references the caller holds; merged is the reference returned.      *)
(***************************************************************************)
Ref(a) == [t |-> "ref", a |-> a]

RECURSIVE StoreValue(_, _)
RECURSIVE StoreProps(_, _, _, _)
RECURSIVE StoreItems(_, _, _, _)
\* the object literals of a value laid out in memory: the heap with the new
\* cells, and the scalar or the reference that stands for the value
StoreProps(heap, props, todo, acc) ==
    IF todo = {} THEN [heap |-> heap, val |-> acc]
    ELSE LET k == CHOOSE j \in todo : TRUE
             r == StoreValue(heap, props[k])
         IN  StoreProps(r.heap, props, todo \ {k},
                        [j \in DOMAIN acc \cup {k} |-> IF j = k THEN r.val ELSE acc[j]])

StoreItems(heap, items, i, acc) ==
    IF i > Len(items) THEN [heap |-> heap, val |-> acc]
    ELSE LET r == StoreValue(heap, items[i])
         IN  StoreItems(r.heap, items, i + 1, Append(acc, r.val))

StoreValue(heap, x) ==
    CASE x.t = "obj" ->
           LET r == StoreProps(heap, x.v, DOMAIN x.v, <<>>)
           IN  [heap |-> Append(r.heap, Obj(r.val)), val |-> Ref(Len(r.heap) + 1)]
      [] x.t = "arr" ->
           LET r == StoreItems(heap, x.v, 1, <<>>)
               q == StoreProps(r.heap, x.p, DOMAIN x.p, <<>>)
           IN  [heap |-> Append(q.heap, [t |-> "arr", v |-> r.val, p |-> q.val]),
                val |-> Ref(Len(q.heap) + 1)]
      [] OTHER -> [heap |-> heap, val |-> x]

RECURSIVE Deref(_, _)
\* the value a scalar or a reference stands for
Deref(heap, x) ==
    IF x.t # "ref" THEN x
    ELSE IF heap[x.a].t = "obj"
         THEN Obj([k \in DOMAIN heap[x.a].v |-> Deref(heap, heap[x.a].v[k])])
         ELSE [t |-> "arr",
               v |-> [i \in 1..Len(heap[x.a].v) |-> Deref(heap, heap[x.a].v[i])],
               p |-> [k \in DOMAIN heap[x.a].p |-> Deref(heap, heap[x.a].p[k])]]

\* Object.keys(x), x[k] and x[k] = val through a reference
RefKeys(heap, x) == IF x.t = "ref" THEN Keys(heap[x.a]) ELSE {}
RefGet(heap, x, k) == IF x.t = "ref" THEN Get(heap[x.a], k) ELSE Undef
RefPut(heap, x, k, val) ==
    IF x.t = "ref" THEN [heap EXCEPT ![x.a] = Put(@, k, val)] ELSE heap

\* a copy of the object itself only: its properties refer to the cells the
\* properties of the original refer to
cloneShallow(heap, x) ==
    [heap |-> Append(heap, heap[x.a]), val |-> Ref(Len(heap) + 1)]

\* JSON.parse(JSON.stringify(existing)): every object of the copy is new
cloneJSON(heap, x) == StoreValue(heap, Clone(Deref(heap, x)))

\* merged.hooks.Stop.findIndex(existingHook => existingHook.matcher === newHook.matcher)
RefFindIndex(heap, stop, newHook) ==
    LET hits == {i \in 1..Len(heap[stop.a].v) :
                   RefGet(heap, heap[stop.a].v[i], "matcher")
                     = RefGet(heap, newHook, "matcher")}
    IN  IF hits = {} THEN 0 ELSE CHOOSE i \in hits : \A j \in hits : i <= j

\* merged.hooks.Stop[existingIndex] = newHook, or merged.hooks.Stop.push(newHook)
RefMergeStopHook(heap, stop, newHook) ==
    LET existingIndex == RefFindIndex(heap, stop, newHook)
    IN  IF existingIndex > 0
        THEN [heap EXCEPT ![stop.a].v[existingIndex] = newHook]
        ELSE [heap EXCEPT ![stop.a].v = Append(@, newHook)]

RECURSIVE RefMergeStop(_, _, _)
\* updates.hooks.Stop.forEach
RefMergeStop(heap, stop, news) ==
    IF news = <<>> THEN heap
    ELSE RefMergeStop(RefMergeStopHook(heap, stop, Head(news)), stop, Tail(news))

\* one round of  Object.keys(updates.hooks).forEach
RefMergeHookType(heap, mhooks, uhooks, hookType) ==
    IF hookType = "Stop" /\ Truthy(RefGet(heap, uhooks, "Stop")) /\ Truthy(mhooks)
    THEN LET h1 == IF ~Truthy(RefGet(heap, mhooks, "Stop"))
                   THEN RefPut(Append(heap, Arr(<<>>)), mhooks, "Stop",
                               Ref(Len(heap) + 1))
                   ELSE heap
         IN  RefMergeStop(h1, RefGet(h1, mhooks, "Stop"),
                          h1[RefGet(h1, uhooks, "Stop").a].v)
    ELSE IF Truthy(mhooks) /\ Truthy(uhooks)
         THEN RefPut(heap, mhooks, hookType, RefGet(heap, uhooks, hookType))
         ELSE heap

RECURSIVE RefMergeHookTypes(_, _, _, _)
RefMergeHookTypes(heap, mhooks, uhooks, todo) ==
    IF todo = {} THEN heap
    ELSE LET hookType == CHOOSE k \in todo : TRUE
         IN  RefMergeHookTypes(RefMergeHookType(heap, mhooks, uhooks, hookType),
                               mhooks, uhooks, todo \ {hookType})

\* one round of  Object.keys(updates).forEach
RefMergeKey(heap, merged, updates, key) ==
    IF key = "hooks" /\ Truthy(RefGet(heap, updates, "hooks"))
    THEN LET h1 == IF ~Truthy(RefGet(heap, merged, "hooks"))
                   THEN RefPut(Append(heap, EmptyObj), merged, "hooks",
                               Ref(Len(heap) + 1))
                   ELSE heap
         IN  RefMergeHookTypes(h1, RefGet(h1, merged, "hooks"),
                               RefGet(h1, updates, "hooks"),
                               RefKeys(h1, RefGet(h1, updates, "hooks")))
    ELSE RefPut(heap, merged, key, RefGet(heap, updates, key))

RECURSIVE RefMergeKeys(_, _, _, _)
RefMergeKeys(heap, merged, updates, todo) ==
    IF todo = {} THEN heap
    ELSE LET key == CHOOSE k \in todo : TRUE
         IN  RefMergeKeys(RefMergeKey(heap, merged, updates, key), merged, updates,
                          todo \ {key})

\* mergeConfig(existing, updates) on references: the heap when it returns,
\* and the reference it returns
mergeConfigInMemory(heap, existing, updates) ==
    LET c == cloneJSON(heap, existing)
    IN  [heap |-> RefMergeKeys(c.heap, c.val, updates, RefKeys(c.heap, updates)),
         val |-> c.val]

\* what the caller sees after the call: the documents its two references
\* and the returned one stand for, and whether the returned one is new
Observed(heap, existing, updates, merged) ==
    [merged |-> Deref(heap, merged),
     existing |-> Deref(heap, existing),
     updates |-> Deref(heap, updates),
     newDocument |-> merged # existing /\ merged # updates]

MemoryInit ==
    /\ mIn \in [existing : MergeBases, updates : MergeUpdates]
    /\ mOut = Undef
    /\ cfgFile = [g \in {FALSE} |-> Absent]
    /\ cfgDir = [g \in {FALSE} |-> FALSE]
    /\ backups = [g \in {FALSE} |-> <<>>]
    /\ ntfySh = [g \in {FALSE} |-> Absent]
    /\ dataScript = Absent
    /\ clock = 1
    /\ pruning = FALSE
    /\ inv = [p \in {1} |-> Idle]
    /\ last = NoRun
    /\ runs = 0
    /\ faults = 0

\* the caller's two objects laid out in memory, then the call
DoCallMerge ==
    /\ mOut = Undef
    /\ \E e \in {StoreValue(<<>>, mIn.existing)} :
       \E u \in {StoreValue(e.heap, mIn.updates)} :
       \E m \in {mergeConfigInMemory(u.heap, e.val, u.val)} :
           mOut' = Observed(m.heap, e.val, u.val, m.val)
    /\ UNCHANGED <<cfgFile, cfgDir, backups, ntfySh, dataScript, clock, pruning,
                   inv, last, runs, faults, mIn>>

MemoryNext == DoCallMerge

MemorySpec == MemoryInit /\ [][MemoryNext]_vars

(***************************************************************************)
(* C19.  mergeConfig is pure: it returns a new document, and the existing  *)
(* argument is afterwards what it was before the call at every depth, its  *)
(* hooks.Stop array and the entries of it included.                        *)
(***************************************************************************)
C19_MergeIsPure ==
    mOut # Undef =>
        /\ mOut.newDocument
        /\ mOut.existing = mIn.existing
        /\ mOut.merged = mergeConfig(mIn.existing, mIn.updates)

\* a merge that replaced an entry of a non-empty hooks.Stop and appended
\* another has returned
C19_Witness ==
    /\ mOut # Undef
    /\ StopOf(mIn.existing) # <<>>
    /\ Len(StopOf(mOut.merged)) > Len(StopOf(mIn.existing))
    /\ \E i \in 1..Len(StopOf(mIn.existing)) :
         StopOf(mOut.merged)[i] # StopOf(mIn.existing)[i]

(***************************************************************************)
(* C20.  For every event name of updates.hooks other than Stop, the value  *)
(* of that event name in the merged document is the incoming value, with   *)
(* no merge of its elements; every event name of the base that does not    *)
(* occur in updates.hooks keeps the value it has in the base.              *)
(***************************************************************************)
C20_OtherEventsReplaced ==
    (mOut # Undef /\ Truthy(Get(mIn.updates, "hooks"))) =>
        /\ \A e \in Keys(Get(mIn.updates, "hooks")) \ {"Stop"} :
             Get(Get(mOut, "hooks"), e) = Get(Get(mIn.updates, "hooks"), e)
        /\ \A e \in Keys(Get(mIn.existing, "hooks")) \ Keys(Get(mIn.updates, "hooks")) :
             Get(Get(mOut, "hooks"), e) = Get(Get(mIn.existing, "hooks"), e)

\* a merge has returned in which PreToolUse came in with an entry of the
\* matcher the base's entry has, Start came in new, and the base has a
\* Stop array with entries
C20_Witness ==
    /\ mOut # Undef
    /\ Get(Get(mIn.updates, "hooks"), "PreToolUse") = NewPreToolUse
    /\ Get(Get(mIn.existing, "hooks"), "PreToolUse") = PreToolUse
    /\ "Start" \in Keys(Get(mIn.updates, "hooks"))
    /\ StopOf(mIn.existing) # <<>>
    /\ Get(Get(mOut, "hooks"), "PreToolUse") = NewPreToolUse

(***************************************************************************)
(* validateAndSanitizeNtfyTopic as a function of the raw argument.         *)
(***************************************************************************)
\* the sanitized topic name, or the ErrorType thrown by the validation
validateAndSanitizeNtfyTopic(topicName) ==
    LET sanitized == sanitizeInput(topicName)
    IN  IF validateNtfyTopicName(sanitized) = "ok"
        THEN [err |-> "ok", value |-> sanitized]
        ELSE [err |-> validateNtfyTopicName(sanitized), value |-> <<>>]

Repeat(ch, n) == [i \in 1..n |-> ch]

MaxRawLen == 3
TopicAlphabet == {"a", "Z", "7", "-", "_", " ", ".", "/", "<x00>"}
TopicAccepted ==
    {<<"a">>, Repeat("a", 64), <<" ">> \o Repeat("a", 64) \o <<"\n">>,
     <<"<x00>", "a", "-", "b", "<x7F>">>}
TopicRejected ==
    {<<>>, Repeat("a", 65), <<"-", "a", "b", "c">>, <<"a", "b", "c", "-">>,
     <<"_", "a", "b", "c">>, <<"a", "b", "c", "_">>, <<"a", "b", " ", "c">>,
     <<"a", "b", ".", "c">>, <<"a", "b", "/", "c">>,
     Repeat("a", 63) \o <<"-", " ">>, Repeat("a", 64) \o <<"<x00>", "b">>}
RawTopics == SeqsUpTo(TopicAlphabet, MaxRawLen) \cup TopicAccepted \cup TopicRejected

TopicInit ==
    /\ cfgFile = [g \in {FALSE} |-> Absent]
    /\ cfgDir = [g \in {FALSE} |-> TRUE]
    /\ backups = [g \in {FALSE} |-> <<>>]
    /\ ntfySh = [g \in {FALSE} |-> Absent]
    /\ dataScript = Absent
    /\ clock = 1
    /\ pruning = FALSE
    /\ inv = [p \in {1} |-> Idle]
    /\ last = NoRun
    /\ runs = 0
    /\ faults = 0
    /\ mIn \in RawTopics
    /\ mOut = Undef

DoValidateTopic ==
    /\ mOut = Undef
    /\ mOut' = validateAndSanitizeNtfyTopic(mIn)
    /\ UNCHANGED <<cfgFile, cfgDir, backups, ntfySh, dataScript, clock, pruning,
                   inv, last, runs, faults, mIn>>

TopicNext == DoValidateTopic

TopicSpec == TopicInit /\ [][TopicNext]_vars

\* the characters A-Z, a-z, 0-9, '_' and '-'
TopicChars == Upper \cup Lower \cup Digits \cup {"_", "-"}

(***************************************************************************)
(* C21.  Topic-name validation accepts a raw string exactly when its       *)
(* sanitized form is 1 to 64 characters long, has only the characters      *)
(* A-Z, a-z, 0-9, '_' and '-', and neither starts nor ends with '-' or     *)
(* '_'; an accepted call returns the sanitized form, every other call      *)
(* fails with INVALID_TOPIC_NAME.                                          *)
(***************************************************************************)
C21_TopicAcceptedExactly ==
    mOut # Undef =>
        LET s == sanitizeInput(mIn)
            wellFormed ==
                /\ Len(s) >= 1
                /\ Len(s) <= 64
                /\ \A i \in 1..Len(s) : s[i] \in TopicChars
                /\ s[1] \notin {"-", "_"}
                /\ s[Len(s)] \notin {"-", "_"}
        IN  /\ wellFormed => mOut = [err |-> "ok", value |-> s]
            /\ ~wellFormed => mOut = [err |-> "INVALID_TOPIC_NAME", value |-> <<>>]
            /\ mIn \in TopicAccepted => mOut.err = "ok"
            /\ mIn \in TopicRejected => mOut.err = "INVALID_TOPIC_NAME"

\* a 64-character name wrapped in white space has been accepted
C21_Witness ==
    /\ mIn = <<" ">> \o Repeat("a", 64) \o <<"\n">>
    /\ mOut # Undef
    /\ mOut.err = "ok"
    /\ mOut.value = Repeat("a", 64)

(***************************************************************************)
(* C22.  loadConfig on a path at which no file exists returns the empty    *)
(* document {} and raises no error, and nothing is created: the file is    *)
(* still absent and there is no backup and no script.                      *)
(***************************************************************************)
C22_AbsentLoadsEmpty ==
    (mOut # Undef /\ ~fileExists(cfgFile[FALSE])) =>
        /\ mOut = [ok |-> TRUE, config |-> EmptyObj, err |-> "none"]
        /\ Keys(mOut.config) = {}
        /\ cfgFile[FALSE] = Absent
        /\ backups[FALSE] = <<>>
        /\ ntfySh[FALSE] = Absent
        /\ dataScript = Absent

\* loadConfig has returned for a path whose directory does not exist
C22_Witness ==
    /\ mOut # Undef
    /\ mOut.ok
    /\ cfgFile[FALSE] = Absent
    /\ ~cfgDir[FALSE]

\* the place of a recorded step in the body of handleDiscordCommand,
\* handleNtfyCommand and handleMacOSCommand; saveConfig's own steps (its
\* backup, the write, the restore after a failed write) are the stage save
Stage(label) ==
    CASE label = "validate" -> 1
      [] label = "ensureDir" -> 2
      [] label = "load" -> 3
      [] label \in {"backup", "nobackup"} -> 4
      [] label = "generate" -> 5
      [] label = "merge" -> 6
      [] label \in {"save", "write", "restore", "norestore"} -> 7
      [] label = "script" -> 8

Linear(steps) ==
    \* in the order of the code, none skipped, starting with the validation
    /\ steps # <<>> => Stage(steps[1].s) = 1
    /\ \A i \in 1..(Len(steps) - 1) :
         \/ Stage(steps[i + 1].s) = Stage(steps[i].s) + 1
         \/ /\ Stage(steps[i + 1].s) = Stage("save")
            /\ Stage(steps[i].s) = Stage("save")
    \* each at most once
    /\ \A i, j \in 1..Len(steps) : i # j => steps[i].s # steps[j].s
    \* after a failed step nothing runs but the restore inside saveConfig
    /\ \A i \in 1..(Len(steps) - 1) :
         ~steps[i].ok =>
             /\ steps[i].s = "write"
             /\ i + 1 = Len(steps)
             /\ steps[i + 1].s \in {"restore", "norestore"}
             /\ ~steps[i + 1].ok \/ steps[i + 1].s = "restore"
    \* the script of the ntfy command is written last
    /\ \A i \in 1..Len(steps) : steps[i].s = "script" => i = Len(steps)

(***************************************************************************)
(* C23.  A command invocation is one linear pipeline: the steps validate,  *)
(* (ensure directory,) load, backup-if-exists, generate, merge and save    *)
(* are taken in that order, none skipped, each at most once, and after a   *)
(* step has failed no later step of the pipeline runs; an invocation that  *)
(* ended with a failure ended in its failed step, an invocation that ended *)
(* successfully took every step.                                           *)
(***************************************************************************)
C23_LinearPipeline ==
    /\ \A p \in DOMAIN inv : Linear(inv[p].steps)
    /\ Ended =>
         /\ Linear(last.steps)
         /\ last.ok => /\ \A i \in 1..Len(last.steps) : last.steps[i].ok
                       /\ {Stage(last.steps[i].s) : i \in 1..Len(last.steps)}
                              \in {1..7, 1..8}
         /\ ~last.ok => \E i \in 1..Len(last.steps) : ~last.steps[i].ok

\* an invocation failed in its backup step, after a load that succeeded
C23_Witness ==
    /\ Ended
    /\ ~last.ok
    /\ Len(last.steps) = 4
    /\ last.steps[3] = Step("load", TRUE)
    /\ last.steps[4] = Step("backup", FALSE)

(***************************************************************************)
(* createBackup of the pruning build, called on its own.  The timestamp    *)
(* of a backup is new Date().toISOString(), the wall clock, which a clock  *)
(* adjustment can set back between two calls; the directory can hold       *)
(* backups of earlier calls.                                               *)
(***************************************************************************)
Stamps == 1..3
BackupContents == {Garbage, JsonText(DocRich, "compact"), JsonText(DocDup, "indent2")}

\* the backup files a directory can hold before a call: none, one or two
BackupDirs ==
    {<<>>}
    \cup {(t :> c) : t \in Stamps, c \in {Garbage}}
    \cup {(t :> Garbage) @@ (u :> JsonText(DocDup, "indent2")) : t, u \in Stamps}

createBackupReturned(backupPath, content) ==
    [ok |-> TRUE, backupPath |-> backupPath, content |-> content, err |-> "none"]
createBackupThrown(err) ==
    [ok |-> FALSE, backupPath |-> 0, content |-> Absent, err |-> err]

BackupInit ==
    /\ cfgFile \in [{FALSE} -> {Absent} \cup BackupContents]
    /\ cfgDir = [g \in {FALSE} |-> TRUE]
    /\ backups \in [{FALSE} -> BackupDirs]
    /\ ntfySh = [g \in {FALSE} |-> Absent]
    /\ dataScript = Absent
    /\ clock = 1
    /\ pruning = TRUE
    /\ inv = [p \in {1} |-> Idle]
    /\ last = NoRun
    /\ runs = 0
    /\ faults = 0
    /\ mIn = Undef
    /\ mOut = Undef

\* backupPath = await fileSystemService.createBackup(filePath)
DoCreateBackup ==
    /\ runs < MaxInvocations
    /\ runs' = runs + 1
    /\ \E timestamp \in Stamps :
         /\ clock' = timestamp
         /\ \/ /\ ~fileExists(cfgFile[FALSE])
               /\ mOut' = createBackupThrown("FILE_PERMISSION_ERROR")
               /\ UNCHANGED <<backups, faults>>
            \/ /\ fileExists(cfgFile[FALSE])
               /\ backups' = [backups EXCEPT ![FALSE] = createBackup(FALSE, timestamp, TRUE)]
               /\ mOut' = createBackupReturned(timestamp, cfgFile[FALSE])
               /\ NoFault
            \/ /\ fileExists(cfgFile[FALSE])
               /\ CanFail
               /\ backups' = [backups EXCEPT ![FALSE] = createBackup(FALSE, timestamp, FALSE)]
               /\ mOut' = createBackupReturned(timestamp, cfgFile[FALSE])
               /\ Fault
            \/ /\ fileExists(cfgFile[FALSE])
               /\ CanFail
               /\ \E bk \in BackupFailed(FALSE, timestamp) :
                    backups' = [backups EXCEPT ![FALSE] = bk]
               /\ \E code \in ErrCodes :
                    mOut' = createBackupThrown(createBackupError(copyFileError(code)))
               /\ Fault
    /\ UNCHANGED <<cfgFile, cfgDir, ntfySh, dataScript, pruning, inv, last, mIn>>

\* between two backups the file is written by the command that made the first
OverwriteFile ==
    /\ mOut # Undef
    /\ runs < MaxInvocations
    /\ \E content \in BackupContents \ {cfgFile[FALSE]} :
         cfgFile' = [cfgFile EXCEPT ![FALSE] = content]
    /\ mIn = Undef
    /\ mIn' = Null
    /\ UNCHANGED <<cfgDir, backups, ntfySh, dataScript, clock, pruning, inv, last,
                   runs, faults, mOut>>

BackupNext ==
    \/ DoCreateBackup
    \/ OverwriteFile

BackupSpec == BackupInit /\ [][BackupNext]_vars

(***************************************************************************)
(* C24.  In the pruning build, whenever createBackup(path) has returned,   *)
(* exactly one backup file of path exists, it is the backup the call       *)
(* created (it holds the content the file had at the call), and the        *)
(* returned backup path is the name of that file.                          *)
(***************************************************************************)
C24_OneBackupAfterReturn ==
    (pruning /\ mOut # Undef /\ mOut.ok) =>
        /\ Cardinality(DOMAIN backups[FALSE]) = 1
        /\ mOut.backupPath \in DOMAIN backups[FALSE]
        /\ backups[FALSE][mOut.backupPath] = mOut.content

(***************************************************************************)
(* Two invocations of the tool at the same time on one configuration       *)
(* file: two processes, each running the body of its command handler,      *)
(* whose awaits interleave freely.  No fs call fails here.                  *)
(***************************************************************************)
RaceInit ==
    /\ cfgFile \in [{FALSE} -> {Absent, JsonText(DocRich, "compact")}]
    /\ cfgDir = [g \in {FALSE} |-> fileExists(cfgFile[g])]
    /\ backups = [g \in {FALSE} |-> <<>>]
    /\ ntfySh = [g \in {FALSE} |-> Absent]
    /\ dataScript = Absent
    /\ clock = 1
    /\ pruning \in BOOLEAN
    /\ inv = [p \in {1, 2} |-> Idle]
    /\ last = NoRun
    /\ runs = MaxInvocations - 2
    /\ faults = MaxFaults
    /\ mIn = NoMerge
    /\ mOut = Undef

FaultFreeNext ==
    \/ \E p \in DOMAIN inv : Start(p)
    \/ \E p \in DOMAIN inv : Validate(p)
    \/ \E p \in DOMAIN inv : EnsureDir(p)
    \/ \E p \in DOMAIN inv : Load(p)
    \/ \E p \in DOMAIN inv : Backup(p)
    \/ \E p \in DOMAIN inv : Generate(p)
    \/ \E p \in DOMAIN inv : Merge(p)
    \/ \E p \in DOMAIN inv : Save(p)
    \/ \E p \in DOMAIN inv : SaveWrite(p)
    \/ \E p \in DOMAIN inv : NtfyScript(p)

RaceSpec == RaceInit /\ [][FaultFreeNext]_vars

(***************************************************************************)
(* C25.  Invocations on the same file are not guarded against each other:  *)
(* a successful write puts into the file the document the writer merged    *)
(* from what it loaded, that is the Stop hooks it loaded and its own hook   *)
(* and nothing an invocation wrote in between.  So two invocations for     *)
(* different channels can both succeed and leave a file with the hook of   *)
(* only one of them (the witness).                                         *)
(***************************************************************************)
C25_WriteIgnoresOtherWriters ==
    [][\A p \in DOMAIN inv :
         (inv[p].pc = "write" /\ inv'[p].pc \in {"idle", "script"}) =>
             LET g == inv[p].cmd.isGlobal
                 written == StopOf(DocOf(cfgFile'[g]))
             IN  /\ CanParse(cfgFile'[g])
                 /\ MatchersOf(written) =
                        MatchersOf(StopOf(inv[p].existingConfig))
                        \cup {MatcherStr(inv[p].cmd.ch)}
                 /\ Len(written) <= Len(StopOf(inv[p].existingConfig)) + 1]_vars

\* both invocations have succeeded, the ntfy one having written its script
\* as its last step and the discord one having ended last, and the file has
\* the discord hook and no ntfy hook
C25_Witness ==
    /\ Ended
    /\ runs = MaxInvocations
    /\ Cardinality(DOMAIN inv) = 2
    /\ last.ok
    /\ last.cmd.ch = "discord"
    /\ ntfySh[FALSE] = generateNtfyScriptContent(<<"t", "-", "2">>)
    /\ MatcherStr("discord") \in MatchersOf(StopOf(DocOf(cfgFile[FALSE])))
    /\ MatcherStr("ntfy") \notin MatchersOf(StopOf(DocOf(cfgFile[FALSE])))

(***************************************************************************)
(* mergeConfig with update objects of any shape: Partial<ClaudeConfig>     *)
(* admits a hooks key that holds undefined, and a document read from JSON  *)
(* can hold null in any place.                                             *)
(***************************************************************************)
NullishUpdates ==
    {EmptyObj,
     Obj([hooks |-> Null]),
     Obj([hooks |-> Undef]),
     Obj([hooks |-> EmptyObj]),
     Obj([hooks |-> Obj([Stop |-> Null])]),
     Obj([hooks |-> Obj([Stop |-> Undef])]),
     Obj([hooks |-> Obj([Stop |-> Arr(<<>>)])]),
     Obj([model |-> Str(<<"sonnet">>), hooks |-> Obj([Stop |-> Null])])}

MergeAnyInit ==
    /\ mIn \in [existing : MergeBases, updates : MergeUpdates \cup NullishUpdates]
    /\ mOut = Undef
    /\ cfgFile = [g \in {FALSE} |-> Absent]
    /\ cfgDir = [g \in {FALSE} |-> FALSE]
    /\ backups = [g \in {FALSE} |-> <<>>]
    /\ ntfySh = [g \in {FALSE} |-> Absent]
    /\ dataScript = Absent
    /\ clock = 1
    /\ pruning = FALSE
    /\ inv = [p \in {1} |-> Idle]
    /\ last = NoRun
    /\ runs = 0
    /\ faults = 0

MergeAnySpec == MergeAnyInit /\ [][MergeNext]_vars

(***************************************************************************)
(* C26.  mergeConfig never removes a Stop hook: whatever the update holds  *)
(* under hooks or under hooks.Stop (null, undefined and the empty array    *)
(* included), every matcher of existing.hooks.Stop is a matcher of the     *)
(* merged document's hooks.Stop.                                           *)
(***************************************************************************)
C26_StopHooksNeverRemoved ==
    mOut # Undef =>
        MatchersOf(StopOf(mIn.existing)) \subseteq MatchersOf(StopOf(mOut))

(***************************************************************************)
(* C27.  A failed command changes nothing an installed hook depends on:    *)
(* when an invocation has ended with a failure, at whatever step, the      *)
(* configuration file and the script file of its channel have the content  *)
(* they had when it started (or are still absent).                         *)
(***************************************************************************)
C27_FailedCommandChangesNothing ==
    (Ended /\ ~last.ok) =>
        LET g == last.cmd.isGlobal IN
        /\ cfgFile[g] = last.pre.file
        /\ last.cmd.ch = "ntfy" => ntfySh[g] = last.pre.ntfySh
        /\ last.cmd.ch = "macos" => dataScript = last.pre.dataScript

(***************************************************************************)
(* The tool used for both scopes: a project's ./.claude/settings.json and  *)
(* the user's ~/.claude/settings.json, one invocation after the other.     *)
(***************************************************************************)
ScopeInit ==
    /\ cfgFile \in [BOOLEAN -> {Absent, JsonText(DocRich, "compact")}]
    /\ cfgDir = [g \in BOOLEAN |-> fileExists(cfgFile[g])]
    /\ backups = [g \in BOOLEAN |-> <<>>]
    /\ ntfySh = [g \in BOOLEAN |-> Absent]
    /\ dataScript = Absent
    /\ clock = 1
    /\ pruning \in BOOLEAN
    /\ inv = [p \in {1} |-> Idle]
    /\ last = NoRun
    /\ runs = MaxInvocations - 2
    /\ faults = MaxFaults - 1
    /\ mIn = NoMerge
    /\ mOut = Undef

ScopeSpec == ScopeInit /\ [][Next]_vars

\* the Stop hooks of the document have the entry
HasEntry(doc, entry) == \E i \in 1..Len(StopOf(doc)) : StopOf(doc)[i] = entry

(***************************************************************************)
(* C28.  Scope isolation: no step of an invocation for one scope changes   *)
(* the configuration file, the directory, the backups or the ntfy.sh of    *)
(* the other scope, nor the script that a macos hook installed in the      *)
(* other scope's configuration file executes.                              *)
(***************************************************************************)
C28_ScopeIsolation ==
    [][\A p \in DOMAIN inv :
         inv[p].pc \notin {"idle", "validate"} =>
             LET other == ~inv[p].cmd.isGlobal
             IN  /\ cfgFile'[other] = cfgFile[other]
                 /\ cfgDir'[other] = cfgDir[other]
                 /\ backups'[other] = backups[other]
                 /\ ntfySh'[other] = ntfySh[other]
                 /\ HasEntry(DocOf(cfgFile[other]), macOSHook(other)) =>
                        dataScript' = dataScript]_vars

\* the backup files of the scope of the last invocation that it did not
\* find when it started
NewBackups == DOMAIN backups[last.cmd.isGlobal] \ DOMAIN last.pre.backups

(***************************************************************************)
(* C29.  A successful invocation that found a configuration file leaves    *)
(* exactly one backup file that was not there before, and that backup      *)
(* holds the content the file had when the invocation started; a           *)
(* successful invocation that found no configuration file leaves no new    *)
(* backup.                                                                 *)
(***************************************************************************)
C29_OneNewBackup ==
    (Ended /\ last.ok) =>
        IF fileExists(last.pre.file)
        THEN /\ Cardinality(NewBackups) = 1
             /\ \A t \in NewBackups : backups[last.cmd.isGlobal][t] = last.pre.file
        ELSE NewBackups = {}

(***************************************************************************)
(* A sequence of commands, one after the other, on a configuration file    *)
(* that is valid to begin with: a JSON object whose hooks.Stop entries     *)
(* have distinct matchers.  No fs call fails; the document of the file     *)
(* before the first command is kept in mIn.                                *)
(***************************************************************************)
MaxSequence == 3

OldNtfy == StopHook("ntfy-notification", <<"old ntfy command">>)
SeqDocs ==
    {EmptyObj, DocRich,
     Obj([hooks |-> Obj([Stop |-> Arr(<<CustomHook, OldNtfy>>)])])}

SeqInit ==
    /\ cfgFile \in [{FALSE} -> {Absent} \cup {JsonText(doc, "indent2") : doc \in SeqDocs}]
    /\ cfgDir = [g \in {FALSE} |-> fileExists(cfgFile[g])]
    /\ backups = [g \in {FALSE} |-> <<>>]
    /\ ntfySh = [g \in {FALSE} |-> Absent]
    /\ dataScript = Absent
    /\ clock = 1
    /\ pruning = FALSE
    /\ inv = [p \in {1} |-> Idle]
    /\ last = NoRun
    /\ runs = MaxInvocations - MaxSequence
    /\ faults = MaxFaults
    /\ mIn = [existing |-> DocOf(cfgFile[FALSE]), updates |-> Undef]
    /\ mOut = Undef

SeqSpec == SeqInit /\ [][FaultFreeNext]_vars

\* the hook a successful command puts into the file
HookOf(cmd) ==
    CASE cmd.ch = "discord" -> generateDiscordHook(ValueOf(cmd))
      [] cmd.ch = "ntfy" -> generateNtfyHook(ValueOf(cmd))
      [] cmd.ch = "macos" -> macOSHook(cmd.isGlobal)

ChannelMatchers == {MatcherStr("discord"), MatcherStr("ntfy"), MatcherStr("macos")}
InitStop == StopOf(mIn.existing)
FileStop == StopOf(DocOf(cfgFile[FALSE]))
PreStop == StopOf(DocOf(last.pre.file))

\* what every successful command of a sequence does to hooks.Stop
CommandEffect ==
    \* at most one entry per channel matcher
    /\ \A m \in ChannelMatchers : CountMatcher(FileStop, m) <= 1
    /\ (Ended /\ last.ok) =>
         \* the entry of the channel is the one the command generated
         /\ CountMatcher(FileStop, MatcherStr(last.cmd.ch)) = 1
         /\ FileStop[FirstWith(FileStop, MatcherStr(last.cmd.ch))] = HookOf(last.cmd)
         \* and the entry of the channel of the command before it is still
         \* the one that command generated
         /\ (last.prevOk /\ last.prevCmd.ch # last.cmd.ch) =>
                FileStop[FirstWith(FileStop, MatcherStr(last.prevCmd.ch))]
                    = HookOf(last.prevCmd)
         \* every entry keeps its index; a new channel entry is appended
         /\ \A i \in 1..Len(PreStop) :
              /\ i <= Len(FileStop)
              /\ MatcherOf(FileStop[i]) = MatcherOf(PreStop[i])
              /\ MatcherOf(PreStop[i]) # MatcherStr(last.cmd.ch) => FileStop[i] = PreStop[i]
         /\ Len(FileStop) = Len(PreStop)
                + (IF MatcherStr(last.cmd.ch) \in MatchersOf(PreStop) THEN 0 ELSE 1)

\* C30 as claimed: every entry the file had before the sequence is still
\* there unchanged at its index
C30_InitialEntriesUnchanged ==
    /\ CommandEffect
    /\ \A i \in 1..Len(InitStop) : i <= Len(FileStop) /\ FileStop[i] = InitStop[i]

(***************************************************************************)
(* C30.  After any sequence of successful commands on an initially valid   *)
(* file, hooks.Stop has at most one entry per channel matcher, the entry   *)
(* of a channel is the one its most recent command generated, every entry  *)
(* keeps the index at which it was inserted, and every entry of the        *)
(* initial file keeps its index and its matcher; it is unchanged unless    *)
(* its matcher is a channel matcher, in which case a command of that       *)
(* channel replaces it in place.                                           *)
(***************************************************************************)
C30_SequenceOfCommands ==
    /\ CommandEffect
    /\ \A i \in 1..Len(InitStop) :
         /\ i <= Len(FileStop)
         /\ MatcherOf(FileStop[i]) = MatcherOf(InitStop[i])
         /\ MatcherOf(InitStop[i]) \notin ChannelMatchers => FileStop[i] = InitStop[i]
         /\ FileStop[i] # InitStop[i] =>
                \E cmd \in Commands : FileStop[i] = HookOf(cmd)

\* on a file with a discord entry and a custom entry: ntfy, then macos, then
\* discord, which replaces the first entry where it stands
C30_Witness ==
    /\ Ended
    /\ last.ok
    /\ runs = MaxInvocations
    /\ InitStop = <<OldDiscord, CustomHook>>
    /\ last.cmd.ch = "discord"
    /\ last.prevCmd.ch = "macos"
    /\ Len(FileStop) = 4
    /\ FileStop[1] = HookOf(last.cmd)
    /\ FileStop[2] = CustomHook
    /\ MatcherOf(FileStop[3]) = MatcherStr("ntfy")
    /\ FileStop[4] = HookOf(last.prevCmd)

====
